---- MODULE Spec2Model ----
(***************************************************************************)
(* A model of the schema-to-Go type generator (package jrpc): the          *)
(* definition collector, the identifier synthesizer, the inline enum       *)
(* discoverer and the emitter of GenerateTypes.                            *)
(*                                                                         *)
(* Strings of the program are sequences of one-character strings, so that  *)
(* prefixes, case and byte order are computed as the code computes them.   *)
(***************************************************************************)
EXTENDS Integers, Sequences, FiniteSets, TLC

VARIABLES
    pc,             \* position of the running operation
    schema,         \* the parsed schema document (map[string]any)
    options,        \* *GeneratorOptions
    definitions,    \* GenerateTypes: definitions
    inlineEnums,    \* extractInlineEnums: the inlineEnums map being filled
    unvisited,      \* extractInlineEnums: definitions the range loop has not reached
    processedTypes, \* GenerateTypes: processedTypes (the names set to true)
    file,           \* the destination file: [exists, header, decls, formatted]
    err,            \* the error GenerateTypes returned ("" for nil)
    run,            \* how many times generation was started on this input
    prevFile,       \* the destination file as the previous run left it
    arg,            \* input of the function under study (function specifications)
    res             \* its results so far

vars == <<pc, schema, options, definitions, inlineEnums, unvisited,
          processedTypes, file, err, run, prevFile, arg, res>>

(***************************************************************************)
(* Characters and strings                                                  *)
(***************************************************************************)
LowerLetters == <<"a","b","c","d","e","f","g","h","i","j","k","l","m",
                  "n","o","p","q","r","s","t","u","v","w","x","y","z">>
UpperLetters == <<"A","B","C","D","E","F","G","H","I","J","K","L","M",
                  "N","O","P","Q","R","S","T","U","V","W","X","Y","Z">>
DigitChars == <<"0","1","2","3","4","5","6","7","8","9">>

\* The characters of the model in byte order (the order sort.Strings uses).
Ascii == <<" ", "#", "$", "*", "-", ".", "/">> \o DigitChars \o UpperLetters
         \o <<"[", "]", "_">> \o LowerLetters

Range(s) == {s[i] : i \in DOMAIN s}
LowerSet == Range(LowerLetters)
UpperSet == Range(UpperLetters)
DigitSet == Range(DigitChars)

Code == [c \in Range(Ascii) |-> CHOOSE i \in DOMAIN Ascii : Ascii[i] = c]
UpperOf == [c \in LowerSet |->
              UpperLetters[CHOOSE i \in DOMAIN LowerLetters : LowerLetters[i] = c]]
LowerOf == [c \in UpperSet |->
              LowerLetters[CHOOSE i \in DOMAIN UpperLetters : UpperLetters[i] = c]]

ToUpperChar(c) == IF c \in LowerSet THEN UpperOf[c] ELSE c
ToLowerChar(c) == IF c \in UpperSet THEN LowerOf[c] ELSE c
\* strings.ToUpper, strings.ToLower
ToUpper(s) == [i \in DOMAIN s |-> ToUpperChar(s[i])]
ToLower(s) == [i \in DOMAIN s |-> ToLowerChar(s[i])]

\* strings.HasPrefix, strings.HasSuffix
HasPrefix(s, p) == Len(p) <= Len(s) /\ SubSeq(s, 1, Len(p)) = p
HasSuffix(s, p) == Len(p) <= Len(s) /\ SubSeq(s, Len(s) - Len(p) + 1, Len(s)) = p
\* strings.TrimSuffix, strings.TrimPrefix
TrimSuffix(s, p) == IF HasSuffix(s, p) THEN SubSeq(s, 1, Len(s) - Len(p)) ELSE s
TrimPrefix(s, p) == IF HasPrefix(s, p) THEN SubSeq(s, Len(p) + 1, Len(s)) ELSE s

\* strings.TrimLeft(s, cutset)
RECURSIVE TrimLeft(_, _)
TrimLeft(s, cutset) ==
    IF s # <<>> /\ Head(s) \in cutset THEN TrimLeft(Tail(s), cutset) ELSE s

\* a < b in byte order: the order of sort.Strings
RECURSIVE StrLess(_, _)
StrLess(a, b) ==
    IF b = <<>> THEN FALSE
    ELSE IF a = <<>> THEN TRUE
    ELSE IF Head(a) = Head(b) THEN StrLess(Tail(a), Tail(b))
    ELSE Code[Head(a)] < Code[Head(b)]

\* sort.Strings on a list (duplicates kept): insertion into a sorted list
RECURSIVE InsertSorted(_, _)
InsertSorted(x, sorted) ==
    IF sorted = <<>> THEN <<x>>
    ELSE IF StrLess(Head(sorted), x) THEN <<Head(sorted)>> \o InsertSorted(x, Tail(sorted))
    ELSE <<x>> \o sorted

RECURSIVE SortStrings(_)
SortStrings(list) ==
    IF list = <<>> THEN <<>> ELSE InsertSorted(Head(list), SortStrings(Tail(list)))

\* The keys of a map as sort.Strings leaves them.
RECURSIVE SortedKeys(_)
SortedKeys(S) ==
    IF S = {} THEN <<>>
    ELSE LET least == CHOOSE x \in S : \A y \in S \ {x} : StrLess(x, y)
         IN  <<least>> \o SortedKeys(S \ {least})

RECURSIVE Concat(_)
Concat(parts) == IF parts = <<>> THEN <<>> ELSE Head(parts) \o Concat(Tail(parts))

\* strings.Split(s, sep) for a one-character separator
RECURSIVE SplitFrom(_, _, _)
SplitFrom(s, sep, current) ==
    IF s = <<>> THEN <<current>>
    ELSE IF Head(s) = sep THEN <<current>> \o SplitFrom(Tail(s), sep, <<>>)
    ELSE SplitFrom(Tail(s), sep, Append(current, Head(s)))
Split(s, sep) == SplitFrom(s, sep, <<>>)

(***************************************************************************)
(* String literals of the program                                          *)
(***************************************************************************)
s_Field == <<"F","i","e","l","d">>
s_Meta == <<"M","e","t","a">>
s_meta == <<"_","m","e","t","a">>

\* DefaultAcronyms: the lower-case tokens mapped to true
DefaultAcronymNames == {
    <<"i","d">>,
    <<"u","r","i">>,
    <<"u","r","l">>,
    <<"a","p","i">>,
    <<"h","t","m","l">>,
    <<"h","t","t","p">>,
    <<"h","t","t","p","s">>,
    <<"j","s","o","n">>,
    <<"j","s","o","n","r","p","c">>,
    <<"r","p","c">>,
    <<"m","i","m","e">>,
    <<"s","s","e">>,
    <<"u","u","i","d">>,
    <<"s","q","l">>,
    <<"t","c","p">>,
    <<"u","d","p">>,
    <<"j","w","t">>,
    <<"o","a","u","t","h">>,
    <<"t","l","s">>,
    <<"s","s","l">>,
    <<"x","m","l">>,
    <<"c","s","v">>,
    <<"p","d","f">>}
DefaultAcronyms == [k \in DefaultAcronymNames |-> TRUE]

\* GenerateTypes: acronyms := DefaultAcronyms(); for k, v := range CustomAcronyms { acronyms[k] = v }
MergeAcronyms(custom) ==
    [k \in DOMAIN DefaultAcronyms \cup DOMAIN custom |->
        IF k \in DOMAIN custom THEN custom[k] ELSE DefaultAcronyms[k]]

\* acronyms[lowerPart] of a map[string]bool: false for a missing key
IsAcronym(acronyms, key) == key \in DOMAIN acronyms /\ acronyms[key]

(***************************************************************************)
(* convertToGoFieldName (the spec's toIdentifier)                          *)
(***************************************************************************)
IsIdentChar(r) == r \in LowerSet \cup UpperSet \cup DigitSet \cup {"_"}

\* strings.ReplaceAll of "-", "." and " " by "_"
ReplaceSeparators(name) ==
    [i \in DOMAIN name |-> IF name[i] \in {"-", ".", " "} THEN "_" ELSE name[i]]

\* the cleanName loop: only letters, digits and "_" are kept
CleanName(name) == SelectSeq(name, IsIdentChar)

\* the parts loop: a capital that follows a lower-case letter starts a new part
RECURSIVE CamelParts(_, _, _)
CamelParts(name, i, current) ==
    IF i > Len(name) THEN (IF current # <<>> THEN <<current>> ELSE <<>>)
    ELSE IF i > 1 /\ name[i] \in UpperSet /\ current # <<>> /\ name[i-1] \in LowerSet
         THEN <<current>> \o CamelParts(name, i + 1, <<name[i]>>)
         ELSE CamelParts(name, i + 1, Append(current, name[i]))

NonEmptyString(s) == s # <<>>

\* the finalParts loop: every part split on "_", the empty pieces dropped
RECURSIVE FinalParts(_)
FinalParts(parts) ==
    IF parts = <<>> THEN <<>>
    ELSE SelectSeq(Split(Head(parts), "_"), NonEmptyString) \o FinalParts(Tail(parts))

\* cases.Title(language.English).String on a lower-case word of letters and digits:
\* the first cased letter of the word is title-cased, everything else is copied
RECURSIVE TitleCase(_)
TitleCase(word) ==
    IF word = <<>> THEN <<>>
    ELSE IF Head(word) \in LowerSet THEN <<UpperOf[Head(word)]>> \o Tail(word)
    ELSE <<Head(word)>> \o TitleCase(Tail(word))

CasePart(part, acronyms) ==
    LET lowerPart == ToLower(part)
    IN  IF IsAcronym(acronyms, lowerPart) THEN ToUpper(lowerPart) ELSE TitleCase(lowerPart)

JoinCased(name, acronyms) ==
    LET finalParts == FinalParts(CamelParts(name, 1, <<>>))
    IN  Concat([i \in DOMAIN finalParts |-> CasePart(finalParts[i], acronyms)])

convertToGoFieldName(name, acronyms) ==
    IF name = <<>> THEN <<>>
    ELSE IF name = s_meta THEN s_Meta
    ELSE LET trimmed == TrimLeft(name, {"_"} \cup DigitSet)
         IN  IF trimmed = <<>> THEN s_Field
             ELSE LET joined == JoinCased(CleanName(ReplaceSeparators(trimmed)), acronyms)
                      result == IF joined # <<>> /\ joined[1] \in LowerSet
                                THEN <<ToUpperChar(joined[1])>> \o Tail(joined)
                                ELSE joined
                  IN  IF result = <<>> \/ result[1] \in DigitSet
                      THEN s_Field \o result
                      ELSE result

(***************************************************************************)
(* JSON values: one record shape for every kind (any)                      *)
(***************************************************************************)
NoEntries == [key \in {} |-> 0]
JsonValue(k, s, n, a, m) == [k |-> k, s |-> s, n |-> n, a |-> a, m |-> m]
Str(s)  == JsonValue("string", s, 0, <<>>, NoEntries)
Num(n)  == JsonValue("number", <<>>, n, <<>>, NoEntries)
Bool(b) == JsonValue("bool", <<>>, IF b THEN 1 ELSE 0, <<>>, NoEntries)
Null    == JsonValue("null", <<>>, 0, <<>>, NoEntries)
Arr(a)  == JsonValue("array", <<>>, 0, a, NoEntries)
Map(m)  == JsonValue("map", <<>>, 0, <<>>, m)

IsStr(v) == v.k = "string"
IsArr(v) == v.k = "array"
IsMap(v) == v.k = "map"
\* m[key] of a map[string]any with its ok flag: Has is the flag
Has(m, key) == key \in DOMAIN m

(***************************************************************************)
(* findCommonPrefix and deriveEnumTypeName                                 *)
(***************************************************************************)
\* a variant of the inner loop that keeps the candidate as it is
Shrink_KeepsCandidate(str, prefix) == prefix

\* the inner loop: shrink prefix until str starts with it; "" once nothing is left
RECURSIVE Shrink(_, _)
Shrink(str, prefix) ==
    IF HasPrefix(str, prefix) THEN prefix
    ELSE LET shorter == SubSeq(prefix, 1, Len(prefix) - 1)
         IN  IF shorter = <<>> THEN <<>> ELSE Shrink(str, shorter)

\* the outer loop over strs[1:]: gaveUp is the early return ""
RECURSIVE ShrinkAll(_, _, _)
ShrinkAll(strs, i, prefix) ==
    IF i > Len(strs) THEN [gaveUp |-> FALSE, prefix |-> prefix]
    ELSE LET p == Shrink(strs[i], prefix)
         IN  IF p = <<>> /\ prefix # <<>>
             THEN [gaveUp |-> TRUE, prefix |-> <<>>]
             ELSE ShrinkAll(strs, i + 1, p)

findCommonPrefix(strs) ==
    IF strs = <<>> THEN <<>>
    ELSE LET r == ShrinkAll(strs, 2, strs[1])
             prefix == r.prefix
         IN  IF r.gaveUp THEN <<>>
             ELSE IF Len(prefix) > 2 /\ HasSuffix(prefix, <<"_">>) THEN prefix
             ELSE IF \E i \in DOMAIN strs :
                        Len(strs[i]) > Len(prefix) /\ strs[i][Len(prefix) + 1] = "_"
                  THEN prefix \o <<"_">>
                  ELSE <<>>

\* the values of a []any that are strings, in order
RECURSIVE StringValues(_)
StringValues(enumValues) ==
    IF enumValues = <<>> THEN <<>>
    ELSE (IF IsStr(Head(enumValues)) THEN <<Head(enumValues).s>> ELSE <<>>)
         \o StringValues(Tail(enumValues))

deriveEnumTypeName(enumValues, propName, acronyms) ==
    LET stringValues == StringValues(enumValues)
    IN  IF stringValues = <<>> THEN convertToGoFieldName(propName, acronyms)
        ELSE LET commonPrefix == findCommonPrefix(stringValues)
                 typeName == convertToGoFieldName(TrimSuffix(commonPrefix, <<"_">>), acronyms)
             IN  IF commonPrefix # <<>> /\ typeName # <<>> /\ typeName # s_Field
                 THEN typeName
                 ELSE convertToGoFieldName(propName, acronyms)

(***************************************************************************)
(* The state of GenerateTypes while another operation is studied           *)
(***************************************************************************)
s_types == <<"t","y","p","e","s">>
s_old == <<"o","l","d">>
\* the destination before any run: missing, or left there by something else
NoFile == [exists |-> FALSE, header |-> <<>>, decls |-> <<>>, formatted |-> FALSE]
StaleFile == [exists |-> TRUE, header |-> <<[package |-> s_old, importTime |-> FALSE]>>,
              decls |-> <<>>, formatted |-> FALSE]
\* options == nil: PackageName "types", IncludeComments and FormatOutput true
DefaultOptions == [PackageName |-> s_types, CustomAcronyms |-> NoEntries,
                   IncludeComments |-> TRUE, FormatOutput |-> TRUE]

GeneratorIdle ==
    /\ schema = Map(NoEntries)
    /\ options = DefaultOptions
    /\ definitions = NoEntries
    /\ inlineEnums = NoEntries
    /\ unvisited = {}
    /\ processedTypes = {}
    /\ file = NoFile
    /\ err = ""
    /\ run = 0
    /\ prevFile = NoFile

generatorVars == <<schema, options, definitions, inlineEnums, unvisited,
                   processedTypes, file, err, run, prevFile>>

StringsUpTo(chars, n) == UNION {[1..k -> chars] : k \in 0..n}

(***************************************************************************)
(* SpecIdent: convertToGoFieldName applied to a raw name, then to its own  *)
(* result, under the default acronym table merged with caller overrides.   *)
(***************************************************************************)
MaxNameLen == 3
IdentChars == {"i", "d", "K", "_", "1", "$"}
s_apiKey == <<"a","p","i","K","e","y">>
s_id_url == <<"i","d","_","u","r","l">>
s_user_id == <<"u","s","e","r","_","i","d">>
s_userId == <<"u","s","e","r","I","d">>
s_task_state == <<"T","A","S","K","_","S","T","A","T","E">>
SampleNames == {s_apiKey, s_id_url, s_meta, s_user_id, s_userId, s_task_state}
CustomAcronymChoices ==
    {NoEntries, [k \in {<<"i","d">>} |-> FALSE], [k \in {<<"k">>} |-> TRUE]}

InitIdent ==
    /\ pc = "toIdentifier"
    /\ arg \in [name : StringsUpTo(IdentChars, MaxNameLen) \cup SampleNames,
                custom : CustomAcronymChoices]
    /\ res = <<>>
    /\ GeneratorIdle

\* toIdentifier(x)
ToIdentifierOnce ==
    /\ pc = "toIdentifier"
    /\ res' = <<convertToGoFieldName(arg.name, MergeAcronyms(arg.custom))>>
    /\ pc' = "toIdentifierAgain"
    /\ UNCHANGED <<arg, generatorVars>>

\* toIdentifier(toIdentifier(x))
ToIdentifierAgain ==
    /\ pc = "toIdentifierAgain"
    /\ res' = Append(res, convertToGoFieldName(res[1], MergeAcronyms(arg.custom)))
    /\ pc' = "identDone"
    /\ UNCHANGED <<arg, generatorVars>>

NextIdent == ToIdentifierOnce \/ ToIdentifierAgain
SpecIdent == InitIdent /\ [][NextIdent]_vars

\* C7: toIdentifier is idempotent: applied to its own result, convertToGoFieldName
\* returns that result again, for every raw name and acronym table.
C7_Idempotent == pc = "identDone" => res[2] = res[1]

\* C8: for every raw name (the empty string included) the identifier returned is
\* non-empty and does not begin with a digit.
C8_NonEmptyNoLeadingDigit ==
    pc = "toIdentifierAgain" => res[1] # <<>> /\ res[1][1] \notin DigitSet

(***************************************************************************)
(* SpecPrefix: findCommonPrefix and deriveEnumTypeName on a list of enum   *)
(* values and a property name.                                             *)
(***************************************************************************)
MaxValueLen == 3
MaxValues == 2
PrefixChars == {"A", "_"}
s_flag == <<"f","l","a","g">>
s_status == <<"s","t","a","t","u","s">>
s_TASK_STATE_RUNNING == <<"T","A","S","K","_","S","T","A","T","E","_","R","U","N","N","I","N","G">>
s_TASK_STATE_DONE == <<"T","A","S","K","_","S","T","A","T","E","_","D","O","N","E">>
s_TaskState == <<"T","a","s","k","S","t","a","t","e">>
s_Flag == <<"F","l","a","g">>
s_A == <<"A">>
s_B == <<"B">>
TaskStateCall == [values |-> <<Str(s_TASK_STATE_RUNNING), Str(s_TASK_STATE_DONE)>>,
                  propName |-> s_status]
FlagCall == [values |-> <<Str(s_A), Str(s_B)>>, propName |-> s_flag]
EnumValueChoices == {Str(s) : s \in StringsUpTo(PrefixChars, MaxValueLen)} \cup {Num(1)}

InitPrefix ==
    /\ pc = "findCommonPrefix"
    /\ arg \in [values : UNION {[1..k -> EnumValueChoices] : k \in 0..MaxValues},
                propName : {s_flag}]
               \cup {TaskStateCall, FlagCall}
    /\ res = <<>>
    /\ GeneratorIdle

FindCommonPrefixCall ==
    /\ pc = "findCommonPrefix"
    /\ res' = <<findCommonPrefix(StringValues(arg.values))>>
    /\ pc' = "deriveEnumTypeName"
    /\ UNCHANGED <<arg, generatorVars>>

DeriveEnumTypeNameCall ==
    /\ pc = "deriveEnumTypeName"
    /\ res' = Append(res, deriveEnumTypeName(arg.values, arg.propName, DefaultAcronyms))
    /\ pc' = "prefixDone"
    /\ UNCHANGED <<arg, generatorVars>>

NextPrefix == FindCommonPrefixCall \/ DeriveEnumTypeNameCall
SpecPrefix == InitPrefix /\ [][NextPrefix]_vars

\* The statement of section 4.4, independent of the code: the longest string every
\* input starts with, and when it counts as semantically meaningful.
IsCommonPrefix(p, strs) == \A i \in DOMAIN strs : HasPrefix(strs[i], p)
LongestCommonPrefix(strs) ==
    IF strs = <<>> THEN <<>>
    ELSE LET common == {k \in 0..Len(strs[1]) : IsCommonPrefix(SubSeq(strs[1], 1, k), strs)}
         IN  SubSeq(strs[1], 1, CHOOSE k \in common : \A j \in common : j <= k)
MeaningfulPrefix(strs) ==
    LET p == LongestCommonPrefix(strs)
    IN  /\ Len(p) > 2
        /\ \/ HasSuffix(p, <<"_">>)
           \/ \E i \in DOMAIN strs : Len(strs[i]) > Len(p) /\ strs[i][Len(p) + 1] = "_"

\* C10: findCommonPrefix returns a non-empty string only if the common prefix is
\* longer than 2 characters and either ends in "_" or is followed by "_" in some
\* input; for every other input list it returns the empty string.
C10_AcceptsOnlyMeaningful ==
    pc = "deriveEnumTypeName" =>
        (res[1] # <<>> => MeaningfulPrefix(StringValues(arg.values)))

\* C9: deriveEnumTypeName returns toIdentifier of the meaningful common prefix of
\* the string values (trailing separator trimmed) when there is one and its
\* identifier is not the placeholder word, and toIdentifier(propName) otherwise;
\* the TASK_STATE values give TaskState and ["A","B"] with "flag" gives Flag.
C9_DerivedName ==
    pc = "prefixDone" =>
        LET strs == StringValues(arg.values)
            fromPrefix == convertToGoFieldName(
                              TrimSuffix(LongestCommonPrefix(strs), <<"_">>), DefaultAcronyms)
        IN  /\ res[2] = IF MeaningfulPrefix(strs) /\ fromPrefix # s_Field
                        THEN fromPrefix
                        ELSE convertToGoFieldName(arg.propName, DefaultAcronyms)
            /\ arg = TaskStateCall => res[2] = s_TaskState
            /\ arg = FlagCall => res[2] = s_Flag

(***************************************************************************)
(* Schema keywords and the schema documents generation is run on           *)
(***************************************************************************)
k_definitions == <<"d","e","f","i","n","i","t","i","o","n","s">>
k_defs == <<"$","d","e","f","s">>
k_components == <<"c","o","m","p","o","n","e","n","t","s">>
k_schemas == <<"s","c","h","e","m","a","s">>
k_contentDescriptors == <<"c","o","n","t","e","n","t","D","e","s","c","r","i","p","t","o","r","s">>
k_type == <<"t","y","p","e">>
k_enum == <<"e","n","u","m">>
k_properties == <<"p","r","o","p","e","r","t","i","e","s">>
k_description == <<"d","e","s","c","r","i","p","t","i","o","n">>
k_required == <<"r","e","q","u","i","r","e","d">>
s_object == <<"o","b","j","e","c","t">>
s_string == <<"s","t","r","i","n","g">>
s_level == <<"l","e","v","e","l">>
s_state == <<"s","t","a","t","e">>
s_mode == <<"m","o","d","e">>
s_LEVEL_LOW == <<"L","E","V","E","L","_","L","O","W">>
s_LEVEL_HIGH == <<"L","E","V","E","L","_","H","I","G","H">>
s_ACTIVE == <<"A","C","T","I","V","E">>
s_INACTIVE == <<"I","N","A","C","T","I","V","E">>
s_Level == <<"L","e","v","e","l">>
s_Foo == <<"F","o","o">>
s_severity == <<"s","e","v","e","r","i","t","y">>

k_ref == <<"$","r","e","f">>
k_items == <<"i","t","e","m","s">>
k_format == <<"f","o","r","m","a","t">>
k_additionalProperties == <<"a","d","d","i","t","i","o","n","a","l","P","r","o","p","e","r","t","i","e","s">>
k_oneOf == <<"o","n","e","O","f">>
k_anyOf == <<"a","n","y","O","f">>
k_allOf == <<"a","l","l","O","f">>
k_const == <<"c","o","n","s","t">>
k_default == <<"d","e","f","a","u","l","t">>
s_array == <<"a","r","r","a","y">>
s_integer == <<"i","n","t","e","g","e","r">>
s_number == <<"n","u","m","b","e","r">>
s_boolean == <<"b","o","o","l","e","a","n">>
s_null == <<"n","u","l","l">>
f_date_time == <<"d","a","t","e","-","t","i","m","e">>
f_date == <<"d","a","t","e">>
f_time == <<"t","i","m","e">>
f_byte == <<"b","y","t","e">>
f_binary == <<"b","i","n","a","r","y">>
f_int32 == <<"i","n","t","3","2">>
f_int64 == <<"i","n","t","6","4">>
f_float == <<"f","l","o","a","t">>
f_double == <<"d","o","u","b","l","e">>
t_any == <<"a","n","y">>
t_string == <<"s","t","r","i","n","g">>
t_slice == <<"[","]">>
t_sliceAny == <<"[","]","a","n","y">>
t_timeTime == <<"t","i","m","e",".","T","i","m","e">>
t_bytes == <<"[","]","b","y","t","e">>
t_int == <<"i","n","t">>
t_int32 == <<"i","n","t","3","2">>
t_int64 == <<"i","n","t","6","4">>
t_float32 == <<"f","l","o","a","t","3","2">>
t_float64 == <<"f","l","o","a","t","6","4">>
t_bool == <<"b","o","o","l">>
t_mapString == <<"m","a","p","[","s","t","r","i","n","g","]">>
t_mapStringAny == <<"m","a","p","[","s","t","r","i","n","g","]","a","n","y">>
t_mapPrefix == <<"m","a","p","[">>
t_pointer == <<"*">>
s_bar == <<"b","a","r">>
s_at == <<"a","t">>
s_StatusActive == <<"S","t","a","t","u","s","A","c","t","i","v","e">>
s_StatusInactive == <<"S","t","a","t","u","s","I","n","a","c","t","i","v","e">>
s_StatusACTIVE == <<"S","t","a","t","u","s","A","C","T","I","V","E">>
s_StatusINACTIVE == <<"S","t","a","t","u","s","I","N","A","C","T","I","V","E">>

\* definition fragments a schema of the model may hold
TaskFragment ==
    Map(k_type :> Str(s_object) @@
        k_properties :> Map(
            s_level :> Map(k_enum :> Arr(<<Str(s_LEVEL_LOW), Str(s_LEVEL_HIGH)>>) @@
                           k_description :> Str(s_severity)) @@
            s_state :> Map(k_enum :> Arr(<<Str(s_B), Str(s_A)>>) @@ NoEntries)))
UserFragment ==
    Map(k_type :> Str(s_object) @@
        k_properties :> Map(
            s_level :> Map(k_enum :> Arr(<<Str(s_A), Str(s_B)>>) @@ NoEntries) @@
            s_mode  :> Map(k_enum :> Arr(<<Str(s_LEVEL_HIGH), Str(s_LEVEL_LOW)>>) @@ NoEntries)) @@
        k_required :> Arr(<<Str(s_level)>>))
StatusFragment ==
    Map(k_type :> Str(s_string) @@ k_enum :> Arr(<<Str(s_INACTIVE), Str(s_ACTIVE)>>))
AliasFragment == Map(k_type :> Str(s_string) @@ NoEntries)
BooleanFragment == Bool(TRUE)
\* {"type":"string","enum":["ACTIVE","INACTIVE"]}
ActiveFragment ==
    Map(k_type :> Str(s_string) @@ k_enum :> Arr(<<Str(s_ACTIVE), Str(s_INACTIVE)>>))
\* {"type":"object","properties":{"bar":{"type":"string"}},"required":["bar"]}
FooFragment ==
    Map(k_type :> Str(s_object) @@
        k_properties :> Map(s_bar :> Map(k_type :> Str(s_string) @@ NoEntries) @@ NoEntries) @@
        k_required :> Arr(<<Str(s_bar)>>))
\* an object with a date-time property, an array of dates, an integer that carries
\* a date format, and a map of times
EventFragment ==
    Map(k_type :> Str(s_object) @@
        k_properties :> Map(s_at :> Map(k_type :> Str(s_string) @@
                                        k_format :> Str(f_date_time)) @@ NoEntries))
DatesFragment ==
    Map(k_type :> Str(s_array) @@
        k_items :> Map(k_type :> Str(s_string) @@ k_format :> Str(f_date)))
StampFragment == Map(k_type :> Str(s_integer) @@ k_format :> Str(f_date))
TimesFragment ==
    Map(k_type :> Str(s_object) @@
        k_additionalProperties :> Map(k_type :> Str(s_string) @@ k_format :> Str(f_time)))
Fragments == [Task |-> TaskFragment, User |-> UserFragment, Status |-> StatusFragment,
              Alias |-> AliasFragment, Boolean |-> BooleanFragment,
              Active |-> ActiveFragment, Foo |-> FooFragment, Event |-> EventFragment,
              Dates |-> DatesFragment, Stamp |-> StampFragment, Times |-> TimesFragment]

\* The five recognized locations, in the order extractDefinitions reads them, and
\* "components" itself.
LocDefinitions == 1
LocDefs == 2
LocComponentsSchemas == 3
LocContentDescriptors == 4
LocSchemas == 5
LocComponents == 6
Locations == LocDefinitions..LocSchemas

\* What a schema document is built from: an entry (name, fragment) of a location,
\* or a location that is present with the wrong shape (shape "string") or as an
\* empty map (shape "empty").
Entry(loc, name, frag) == [loc |-> loc, name |-> name, frag |-> frag, shape |-> "entry"]
ShapeItems(locs) == [loc : locs, name : {<<>>}, frag : {"none"}, shape : {"string", "empty"}]

Compatible(x, y) ==
    /\ x.loc = y.loc => x.shape = "entry" /\ y.shape = "entry" /\ x.name # y.name
    /\ x.loc = LocComponents => y.loc \notin {LocComponentsSchemas, LocContentDescriptors}
    /\ y.loc = LocComponents => x.loc \notin {LocComponentsSchemas, LocContentDescriptors}

\* the sets of at most n compatible items
RECURSIVE ItemSetsUpTo(_, _)
ItemSetsUpTo(items, n) ==
    IF n = 0 THEN {{}}
    ELSE LET smaller == ItemSetsUpTo(items, n - 1)
         IN  smaller \cup
             UNION {{I \cup {x} : x \in {y \in items : \A z \in I : y # z => Compatible(y, z)}}
                    : I \in smaller}

\* the value a schema holds at a location
LocationValue(items, loc) ==
    LET here == {x \in items : x.loc = loc}
    IN  IF \E x \in here : x.shape = "string" THEN Str(s_string)
        ELSE Map([name \in {x.name : x \in {y \in here : y.shape = "entry"}} |->
                    Fragments[(CHOOSE x \in here : x.shape = "entry" /\ x.name = name).frag]])

Present(items, loc) == \E x \in items : x.loc = loc

SchemaOf(items) ==
    LET inComponents ==
            {k \in {k_schemas, k_contentDescriptors} :
                Present(items, IF k = k_schemas THEN LocComponentsSchemas
                               ELSE LocContentDescriptors)}
        components ==
            IF Present(items, LocComponents) THEN LocationValue(items, LocComponents)
            ELSE Map([k \in inComponents |->
                        LocationValue(items, IF k = k_schemas THEN LocComponentsSchemas
                                             ELSE LocContentDescriptors)])
        keys == {k \in {k_definitions, k_defs, k_components, k_schemas} :
                    \/ k = k_definitions /\ Present(items, LocDefinitions)
                    \/ k = k_defs /\ Present(items, LocDefs)
                    \/ k = k_schemas /\ Present(items, LocSchemas)
                    \/ k = k_components /\ (inComponents # {} \/ Present(items, LocComponents))}
    IN  Map([k \in keys |->
                IF k = k_definitions THEN LocationValue(items, LocDefinitions)
                ELSE IF k = k_defs THEN LocationValue(items, LocDefs)
                ELSE IF k = k_schemas THEN LocationValue(items, LocSchemas)
                ELSE components])

\* The schemas GenerateTypes is run on: at most MaxEntries definitions, each a
\* named fragment under "definitions" or "components.schemas" (a JSON key may be
\* empty, and a definition may be a boolean schema).
MaxEntries == 3
s_Bar == <<"B","a","r">>
s_Status == <<"S","t","a","t","u","s">>
SchemaLocations == {LocDefinitions, LocComponentsSchemas}
NamedFragments ==
    {<<s_Foo, "Task">>, <<s_Foo, "User">>, <<s_Bar, "User">>,
     <<s_Level, "Status">>, <<s_Level, "Alias">>, <<s_Status, "Status">>,
     <<<<>>, "Alias">>, <<s_Bar, "Boolean">>}
SchemaItems ==
    {Entry(loc, d[1], d[2]) : loc \in SchemaLocations, d \in NamedFragments}
    \cup ShapeItems(SchemaLocations)
Schemas == {SchemaOf(I) : I \in ItemSetsUpTo(SchemaItems, MaxEntries)}

\* The schemas extractDefinitions is studied on: at most MaxLocated entries or
\* wrongly shaped locations, anywhere among the five locations.
MaxLocated == 2
LocatedItems ==
    {Entry(loc, name, frag) : loc \in Locations, name \in {s_Foo, s_Level},
                              frag \in {"Status", "Alias"}}
    \cup ShapeItems(Locations)
    \cup {[loc |-> LocComponents, name |-> <<>>, frag |-> "none", shape |-> "string"]}
LocatedSchemas == {SchemaOf(I) : I \in ItemSetsUpTo(LocatedItems, MaxLocated)}

(***************************************************************************)
(* extractDefinitions                                                      *)
(***************************************************************************)
\* for k, v := range defs { definitions[k] = v }
Overwrite(base, defs) ==
    [k \in DOMAIN base \cup DOMAIN defs |-> IF k \in DOMAIN defs THEN defs[k] ELSE base[k]]

\* the entries of doc[key] when it is a map[string]any, none otherwise
MapAt(doc, key) ==
    IF Has(doc, key) /\ IsMap(doc[key]) THEN doc[key].m ELSE NoEntries

\* a variant in which the location read first wins a name clash
extractDefinitions_EarlierWins(doc) ==
    LET components == MapAt(doc, k_components)
        fromSchemas == Overwrite(NoEntries, MapAt(doc, k_schemas))
        fromDescriptors == Overwrite(fromSchemas, MapAt(components, k_contentDescriptors))
        fromComponents == Overwrite(fromDescriptors, MapAt(components, k_schemas))
        fromDefs == Overwrite(fromComponents, MapAt(doc, k_defs))
    IN  Overwrite(fromDefs, MapAt(doc, k_definitions))

extractDefinitions(doc) ==
    LET components == MapAt(doc, k_components)
        fromDefinitions == Overwrite(NoEntries, MapAt(doc, k_definitions))
        fromDefs == Overwrite(fromDefinitions, MapAt(doc, k_defs))
        fromSchemas == Overwrite(fromDefs, MapAt(components, k_schemas))
        fromSchemasAgain == Overwrite(fromSchemas, MapAt(components, k_schemas))
        fromDescriptors == Overwrite(fromSchemasAgain, MapAt(components, k_contentDescriptors))
    IN  Overwrite(fromDescriptors, MapAt(doc, k_schemas))

(***************************************************************************)
(* determineGoType (the spec's resolve) and containsTimeType               *)
(***************************************************************************)
\* YAML integers unmarshal to int; JSON numbers are float64 (Num)
IntNum(n) == JsonValue("int", <<>>, n, <<>>, NoEntries)

\* m[key].(string), m[key].([]any) and m[key].(map[string]any) succeed
StrAt(m, key) == Has(m, key) /\ IsStr(m[key])
ArrAt(m, key) == Has(m, key) /\ IsArr(m[key])
MapValueAt(m, key) == Has(m, key) /\ IsMap(m[key])
\* enum, ok := m["enum"].([]any); ok && len(enum) > 0
NonEmptyArrAt(m, key) == ArrAt(m, key) /\ m[key].a # <<>>

Last(s) == s[Len(s)]

\* the loop over an untyped enum: the first value of a recognized kind decides
RECURSIVE EnumKindType(_)
EnumKindType(enum) ==
    IF enum = <<>> THEN t_any
    ELSE IF Head(enum).k = "string" THEN t_string
    ELSE IF Head(enum).k = "number" THEN t_float64
    ELSE IF Head(enum).k = "int" THEN t_int
    ELSE IF Head(enum).k = "bool" THEN t_bool
    ELSE EnumKindType(Tail(enum))

StringFormatType(format) ==
    IF format \in {f_date_time, f_date, f_time} THEN t_timeTime
    ELSE IF format \in {f_byte, f_binary} THEN t_bytes
    ELSE t_string

RECURSIVE determineGoType(_, _)
\* a variant that looks at oneOf, anyOf and allOf before the primitive types
determineGoType_UnionFirst(propMap, defs) ==
    LET propType == IF StrAt(propMap, k_type) THEN propMap[k_type].s ELSE <<>>
        format == IF StrAt(propMap, k_format) THEN propMap[k_format].s ELSE <<>>
    IN  IF StrAt(propMap, k_ref) THEN Last(Split(propMap[k_ref].s, "/"))
        ELSE IF StrAt(propMap, k_type) /\ propType = s_array
             THEN IF MapValueAt(propMap, k_items)
                  THEN t_slice \o determineGoType(propMap[k_items].m, defs)
                  ELSE t_sliceAny
        ELSE IF NonEmptyArrAt(propMap, k_oneOf) THEN t_any
        ELSE IF NonEmptyArrAt(propMap, k_anyOf) THEN t_any
        ELSE IF NonEmptyArrAt(propMap, k_allOf) THEN t_any
        ELSE IF StrAt(propMap, k_type) /\ propType = s_string THEN StringFormatType(format)
        ELSE IF StrAt(propMap, k_type) /\ propType = s_integer
             THEN IF format = f_int32 THEN t_int32
                  ELSE IF format = f_int64 THEN t_int64 ELSE t_int
        ELSE IF StrAt(propMap, k_type) /\ propType = s_number
             THEN IF format = f_float THEN t_float32 ELSE t_float64
        ELSE IF StrAt(propMap, k_type) /\ propType = s_boolean THEN t_bool
        ELSE IF StrAt(propMap, k_type) /\ propType = s_object
             THEN IF MapValueAt(propMap, k_additionalProperties)
                  THEN t_mapString \o determineGoType(propMap[k_additionalProperties].m, defs)
                  ELSE t_mapStringAny
        ELSE IF StrAt(propMap, k_type) /\ propType = s_null THEN t_any
        ELSE IF Has(propMap, k_const) THEN t_any
        ELSE IF NonEmptyArrAt(propMap, k_enum) THEN EnumKindType(propMap[k_enum].a)
        ELSE t_any

determineGoType(propMap, defs) ==
    LET propType == IF StrAt(propMap, k_type) THEN propMap[k_type].s ELSE <<>>
        format == IF StrAt(propMap, k_format) THEN propMap[k_format].s ELSE <<>>
    IN  IF StrAt(propMap, k_ref) THEN Last(Split(propMap[k_ref].s, "/"))
        ELSE IF StrAt(propMap, k_type) /\ propType = s_array
             THEN IF MapValueAt(propMap, k_items)
                  THEN t_slice \o determineGoType(propMap[k_items].m, defs)
                  ELSE t_sliceAny
        ELSE IF StrAt(propMap, k_type) /\ propType = s_string THEN StringFormatType(format)
        ELSE IF StrAt(propMap, k_type) /\ propType = s_integer
             THEN IF format = f_int32 THEN t_int32
                  ELSE IF format = f_int64 THEN t_int64 ELSE t_int
        ELSE IF StrAt(propMap, k_type) /\ propType = s_number
             THEN IF format = f_float THEN t_float32 ELSE t_float64
        ELSE IF StrAt(propMap, k_type) /\ propType = s_boolean THEN t_bool
        ELSE IF StrAt(propMap, k_type) /\ propType = s_object
             THEN IF MapValueAt(propMap, k_additionalProperties)
                  THEN t_mapString \o determineGoType(propMap[k_additionalProperties].m, defs)
                  ELSE t_mapStringAny
        ELSE IF StrAt(propMap, k_type) /\ propType = s_null THEN t_any
        ELSE IF NonEmptyArrAt(propMap, k_oneOf) THEN t_any
        ELSE IF NonEmptyArrAt(propMap, k_anyOf) THEN t_any
        ELSE IF NonEmptyArrAt(propMap, k_allOf) THEN t_any
        ELSE IF Has(propMap, k_const) THEN t_any
        ELSE IF NonEmptyArrAt(propMap, k_enum) THEN EnumKindType(propMap[k_enum].a)
        ELSE t_any

RECURSIVE containsTimeType(_)
containsTimeType(defMap) ==
    \/ StrAt(defMap, k_format) /\ defMap[k_format].s \in {f_date_time, f_date, f_time}
    \/ /\ MapValueAt(defMap, k_properties)
       /\ \E name \in DOMAIN defMap[k_properties].m :
             LET prop == defMap[k_properties].m[name]
             IN  IsMap(prop) /\ containsTimeType(prop.m)
    \/ MapValueAt(defMap, k_items) /\ containsTimeType(defMap[k_items].m)
    \/ \E key \in {k_anyOf, k_oneOf, k_allOf} :
          /\ ArrAt(defMap, key)
          /\ \E i \in DOMAIN defMap[key].a :
                IsMap(defMap[key].a[i]) /\ containsTimeType(defMap[key].a[i].m)

(***************************************************************************)
(* What GenerateTypes writes: the header and one record per declaration    *)
(***************************************************************************)
\* formatDescription: every line trimmed and prefixed by "// "
Whitespace == {" ", "\t", "\n", "\r"}
RECURSIVE TrimRight(_, _)
TrimRight(s, cutset) ==
    IF s # <<>> /\ s[Len(s)] \in cutset THEN TrimRight(SubSeq(s, 1, Len(s) - 1), cutset) ELSE s
TrimSpace(s) == TrimRight(TrimLeft(s, Whitespace), Whitespace)

RECURSIVE JoinLines(_)
JoinLines(lines) ==
    IF lines = <<>> THEN <<>>
    ELSE IF Len(lines) = 1 THEN lines[1]
    ELSE lines[1] \o <<"\n">> \o JoinLines(Tail(lines))

CommentLine(line) ==
    IF TrimSpace(line) # <<>> THEN <<"/", "/", " ">> \o TrimSpace(line) ELSE <<"/", "/">>

formatDescription(description) ==
    IF description = <<>> THEN <<>>
    ELSE LET lines == Split(description, "\n")
         IN  JoinLines([i \in DOMAIN lines |-> CommentLine(lines[i])])

\* the leading comment generateEnumType and generateComplexType write
DescriptionComment(defMap, opts) ==
    LET description == IF StrAt(defMap, k_description) THEN defMap[k_description].s ELSE <<>>
    IN  IF description # <<>> /\ opts.IncludeComments
        THEN formatDescription(description)
        ELSE <<>>

\* One declaration as written. origin tells where the declaration came from
\* ("inline": an inline enum record, "definition": a collected definition); it is
\* not part of the bytes.
Declaration(kind, origin, name, comment, goType, consts, fields) ==
    [kind |-> kind, origin |-> origin, name |-> name, comment |-> comment,
     goType |-> goType, consts |-> consts, fields |-> fields]

\* a variant that names the constants after the raw values
generateEnumType_RawNames(origin, typeName, defMap, enumValues, acronyms, opts) ==
    LET typeStr == IF StrAt(defMap, k_type) THEN defMap[k_type].s ELSE t_string
        enumStrings == SortStrings(StringValues(enumValues))
    IN  Declaration("enum", origin, typeName, DescriptionComment(defMap, opts), typeStr,
            [i \in DOMAIN enumStrings |->
                [name |-> typeName \o enumStrings[i], type |-> typeName,
                 value |-> enumStrings[i]]],
            <<>>)

\* a variant that keeps the values in the order of the enum array
generateEnumType_SourceOrder(origin, typeName, defMap, enumValues, acronyms, opts) ==
    LET typeStr == IF StrAt(defMap, k_type) THEN defMap[k_type].s ELSE t_string
        enumStrings == StringValues(enumValues)
        commonPrefix == TrimSuffix(findCommonPrefix(enumStrings), <<"_">>)
        constName(val) ==
            IF commonPrefix # <<>> /\ HasPrefix(val, commonPrefix \o <<"_">>)
            THEN TrimPrefix(val, commonPrefix \o <<"_">>)
            ELSE val
    IN  Declaration("enum", origin, typeName, DescriptionComment(defMap, opts), typeStr,
            [i \in DOMAIN enumStrings |->
                [name |-> typeName \o convertToGoFieldName(constName(enumStrings[i]), acronyms),
                 type |-> typeName,
                 value |-> enumStrings[i]]],
            <<>>)

generateEnumType(origin, typeName, defMap, enumValues, acronyms, opts) ==
    LET typeStr == IF StrAt(defMap, k_type) THEN defMap[k_type].s ELSE t_string
        enumStrings == SortStrings(StringValues(enumValues))
        commonPrefix == TrimSuffix(findCommonPrefix(enumStrings), <<"_">>)
        constName(val) ==
            IF commonPrefix # <<>> /\ HasPrefix(val, commonPrefix \o <<"_">>)
            THEN TrimPrefix(val, commonPrefix \o <<"_">>)
            ELSE val
    IN  Declaration("enum", origin, typeName, DescriptionComment(defMap, opts), typeStr,
            [i \in DOMAIN enumStrings |->
                [name |-> typeName \o convertToGoFieldName(constName(enumStrings[i]), acronyms),
                 type |-> typeName,
                 value |-> enumStrings[i]]],
            <<>>)

\* a variant that takes a null default for no default
hasDefaultValue_NonNull(propMap) == Has(propMap, k_default) /\ propMap[k_default] # Null

\* hasDefaultValue
hasDefaultValue(propMap) == Has(propMap, k_default)

\* requiredFields of generateComplexType
RequiredFields(defMap) ==
    IF ArrAt(defMap, k_required)
    THEN {defMap[k_required].a[i].s :
            i \in {j \in DOMAIN defMap[k_required].a : IsStr(defMap[k_required].a[j])}}
    ELSE {}

\* a variant that tags a field with its Go name
StructField_TagGoName(propName, propMap, required, defs, acronyms) ==
    LET resolved == IF NonEmptyArrAt(propMap, k_enum)
                    THEN deriveEnumTypeName(propMap[k_enum].a, propName, acronyms)
                    ELSE determineGoType(propMap, defs)
        propType == IF /\ propName \notin required
                       /\ ~hasDefaultValue(propMap)
                       /\ ~HasPrefix(resolved, t_pointer)
                       /\ ~HasPrefix(resolved, t_slice)
                       /\ ~HasPrefix(resolved, t_mapPrefix)
                    THEN t_pointer \o resolved
                    ELSE resolved
    IN  [name |-> convertToGoFieldName(propName, acronyms),
         type |-> propType,
         tag |-> convertToGoFieldName(propName, acronyms),
         omitempty |-> propName \notin required]

\* a variant that resolves an enum property like any other property
StructField_EnumUnnamed(propName, propMap, required, defs, acronyms) ==
    LET resolved == determineGoType(propMap, defs)
        propType == IF /\ propName \notin required
                       /\ ~hasDefaultValue(propMap)
                       /\ ~HasPrefix(resolved, t_pointer)
                       /\ ~HasPrefix(resolved, t_slice)
                       /\ ~HasPrefix(resolved, t_mapPrefix)
                    THEN t_pointer \o resolved
                    ELSE resolved
    IN  [name |-> convertToGoFieldName(propName, acronyms),
         type |-> propType,
         tag |-> propName,
         omitempty |-> propName \notin required]

\* one struct field: its name, its type, and its json tag
StructField(propName, propMap, required, defs, acronyms) ==
    LET resolved == IF NonEmptyArrAt(propMap, k_enum)
                    THEN deriveEnumTypeName(propMap[k_enum].a, propName, acronyms)
                    ELSE determineGoType(propMap, defs)
        propType == IF /\ propName \notin required
                       /\ ~hasDefaultValue(propMap)
                       /\ ~HasPrefix(resolved, t_pointer)
                       /\ ~HasPrefix(resolved, t_slice)
                       /\ ~HasPrefix(resolved, t_mapPrefix)
                    THEN t_pointer \o resolved
                    ELSE resolved
    IN  [name |-> convertToGoFieldName(propName, acronyms),
         type |-> propType,
         tag |-> propName,
         omitempty |-> propName \notin required]

RECURSIVE StructFields(_, _, _, _, _)
StructFields(propNames, properties, required, defs, acronyms) ==
    IF propNames = <<>> THEN <<>>
    ELSE (IF IsMap(properties[Head(propNames)])
          THEN <<StructField(Head(propNames), properties[Head(propNames)].m,
                             required, defs, acronyms)>>
          ELSE <<>>)
         \o StructFields(Tail(propNames), properties, required, defs, acronyms)

generateComplexType(typeName, defMap, defs, acronyms, opts) ==
    LET comment == DescriptionComment(defMap, opts)
    IN  IF StrAt(defMap, k_type) /\ ~Has(defMap, k_properties)
        THEN Declaration("alias", "definition", typeName, comment,
                         determineGoType(defMap, defs), <<>>, <<>>)
        ELSE IF Has(defMap, k_anyOf) \/ Has(defMap, k_oneOf) \/ Has(defMap, k_allOf)
        THEN Declaration("any", "definition", typeName, comment, t_any, <<>>, <<>>)
        ELSE Declaration("struct", "definition", typeName, comment, <<>>, <<>>,
                 IF MapValueAt(defMap, k_properties)
                 THEN StructFields(SortedKeys(DOMAIN defMap[k_properties].m),
                                   defMap[k_properties].m, RequiredFields(defMap),
                                   defs, acronyms)
                 ELSE <<>>)

(***************************************************************************)
(* extractInlineEnums: one definition of the range loop at a time. Go      *)
(* ranges over a map in an unspecified order, so the definition visited    *)
(* next and the order of its properties are chosen freely.                 *)
(***************************************************************************)
\* the properties of a definition that carry a non-empty enum array
EnumProperties(definition) ==
    IF IsMap(definition) /\ MapValueAt(definition.m, k_properties)
    THEN {propName \in DOMAIN definition.m[k_properties].m :
            LET propDef == definition.m[k_properties].m[propName]
            IN  IsMap(propDef) /\ NonEmptyArrAt(propDef.m, k_enum)}
    ELSE {}

\* inlineEnumDef{values, typeInfo}
inlineEnumDef(propMap) ==
    [values |-> propMap[k_enum].a,
     typeInfo |-> (k_description :> (IF Has(propMap, k_description)
                                     THEN propMap[k_description] ELSE Null)
                   @@ k_type :> Str(s_string))]

\* the inner loop over the properties in the order given
RECURSIVE RecordEnums(_, _, _, _)
RecordEnums(found, properties, order, acronyms) ==
    IF order = <<>> THEN found
    ELSE LET propMap == properties[Head(order)].m
             enumTypeName == deriveEnumTypeName(propMap[k_enum].a, Head(order), acronyms)
         IN  RecordEnums(Overwrite(found, enumTypeName :> inlineEnumDef(propMap)),
                         properties, Tail(order), acronyms)

Orderings(S) ==
    {order \in [1..Cardinality(S) -> S] :
        \A i, j \in 1..Cardinality(S) : i # j => order[i] # order[j]}

(***************************************************************************)
(* GenerateTypes                                                           *)
(***************************************************************************)
EmptySchemaError == "schema does not contain any type definitions"
MaxRuns == 2

\* a variant without the emptiness check
EmptySchema_Never(defs) == FALSE

\* len(definitions) == 0
EmptySchema(defs) == DOMAIN defs = {}

\* a variant that leaves the least name last
SortNames_LeastLast(names) ==
    LET sorted == SortedKeys(names)
    IN  IF sorted = <<>> THEN <<>> ELSE Tail(sorted) \o <<Head(sorted)>>

\* the names of a map appended to a slice and passed to sort.Strings
SortNames(names) == SortedKeys(names)

\* enum, ok := defMap["enum"].([]any); ok && len(enum) > 0
IsEnumDefinition(definition) == IsMap(definition) /\ NonEmptyArrAt(definition.m, k_enum)

Acronyms == MergeAcronyms(options.CustomAcronyms)

Init ==
    /\ pc = "GenerateTypes"
    /\ schema \in Schemas
    /\ options = DefaultOptions
    /\ definitions = NoEntries
    /\ inlineEnums = NoEntries
    /\ unvisited = {}
    /\ processedTypes = {}
    /\ file \in {NoFile, StaleFile}
    /\ err = ""
    /\ run = 1
    /\ prevFile = NoFile
    /\ arg = <<>>
    /\ res = <<>>

\* the schema is read and parsed; the definitions are collected; none is an error
CollectDefinitions ==
    /\ pc = "GenerateTypes"
    /\ definitions' = extractDefinitions(schema.m)
    /\ IF EmptySchema(definitions')
       THEN err' = EmptySchemaError /\ pc' = "returned"
       ELSE err' = err /\ pc' = "os.Create"
    /\ UNCHANGED <<schema, options, inlineEnums, unvisited, processedTypes, file,
                   run, prevFile, arg, res>>

\* os.Create truncates the destination; the header is written; extractInlineEnums starts
CreateOutputFile ==
    /\ pc = "os.Create"
    /\ LET needsTime == \E name \in DOMAIN definitions :
                           IsMap(definitions[name]) /\ containsTimeType(definitions[name].m)
       IN  file' = [exists |-> TRUE,
                    header |-> <<[package |-> options.PackageName, importTime |-> needsTime]>>,
                    decls |-> <<>>,
                    formatted |-> FALSE]
    /\ processedTypes' = {}
    /\ inlineEnums' = NoEntries
    /\ unvisited' = DOMAIN definitions
    /\ pc' = "extractInlineEnums"
    /\ UNCHANGED <<schema, options, definitions, err, run, prevFile, arg, res>>

\* one iteration of "for _, definition := range definitions"
VisitDefinition ==
    /\ pc = "extractInlineEnums"
    /\ \E typeName \in unvisited :
         \E order \in Orderings(EnumProperties(definitions[typeName])) :
            /\ inlineEnums' =
                 IF order = <<>> THEN inlineEnums
                 ELSE RecordEnums(inlineEnums, definitions[typeName].m[k_properties].m,
                                  order, Acronyms)
            /\ unvisited' = unvisited \ {typeName}
            /\ pc' = IF unvisited' = {} THEN "inlineEnums" ELSE "extractInlineEnums"
    /\ UNCHANGED <<schema, options, definitions, processedTypes, file, err, run,
                   prevFile, arg, res>>

\* the loop over the sorted inlineEnumNames
EmitInlineEnums ==
    /\ pc = "inlineEnums"
    /\ LET inlineEnumNames == SortNames(DOMAIN inlineEnums)
       IN  /\ file' = [file EXCEPT !.decls = @ \o
                        [i \in DOMAIN inlineEnumNames |->
                            generateEnumType("inline", inlineEnumNames[i],
                                             inlineEnums[inlineEnumNames[i]].typeInfo,
                                             inlineEnums[inlineEnumNames[i]].values,
                                             Acronyms, options)]]
           /\ processedTypes' = processedTypes \cup DOMAIN inlineEnums
    /\ pc' = "enums"
    /\ UNCHANGED <<schema, options, definitions, inlineEnums, unvisited, err, run,
                   prevFile, arg, res>>

\* the first loop over the sorted typeNames: the definitions that are enums
EmitEnumDefinitions ==
    /\ pc = "enums"
    /\ LET typeNames == SelectSeq(SortNames(DOMAIN definitions),
                                  LAMBDA typeName : IsEnumDefinition(definitions[typeName]))
       IN  /\ file' = [file EXCEPT !.decls = @ \o
                        [i \in DOMAIN typeNames |->
                            generateEnumType("definition", typeNames[i],
                                             definitions[typeNames[i]].m,
                                             definitions[typeNames[i]].m[k_enum].a,
                                             Acronyms, options)]]
           /\ processedTypes' = processedTypes \cup Range(typeNames)
    /\ pc' = "complexTypes"
    /\ UNCHANGED <<schema, options, definitions, inlineEnums, unvisited, err, run,
                   prevFile, arg, res>>

\* the second loop over the sorted typeNames: what processedTypes does not hold
EmitComplexTypes ==
    /\ pc = "complexTypes"
    /\ LET typeNames == SelectSeq(SortNames(DOMAIN definitions),
                                  LAMBDA typeName : /\ IsMap(definitions[typeName])
                                                    /\ typeName \notin processedTypes)
       IN  file' = [file EXCEPT !.decls = @ \o
                        [i \in DOMAIN typeNames |->
                            generateComplexType(typeNames[i], definitions[typeNames[i]].m,
                                                definitions, Acronyms, options)]]
    /\ pc' = "go fmt"
    /\ UNCHANGED <<schema, options, definitions, inlineEnums, unvisited, processedTypes,
                   err, run, prevFile, arg, res>>

\* go fmt runs on the destination when FormatOutput is set; GenerateTypes returns nil
FormatAndReturn ==
    /\ pc = "go fmt"
    /\ file' = [file EXCEPT !.formatted = options.FormatOutput]
    /\ pc' = "returned"
    /\ UNCHANGED <<schema, options, definitions, inlineEnums, unvisited, processedTypes,
                   err, run, prevFile, arg, res>>

Next ==
    \/ CollectDefinitions
    \/ CreateOutputFile
    \/ VisitDefinition
    \/ EmitInlineEnums
    \/ EmitEnumDefinitions
    \/ EmitComplexTypes
    \/ FormatAndReturn

Spec == Init /\ [][Next]_vars

\* SpecCollect: the collection step alone, on schemas that use every location
InitCollect ==
    /\ pc = "GenerateTypes"
    /\ schema \in LocatedSchemas
    /\ options = DefaultOptions
    /\ definitions = NoEntries
    /\ inlineEnums = NoEntries
    /\ unvisited = {}
    /\ processedTypes = {}
    /\ file \in {NoFile, StaleFile}
    /\ err = ""
    /\ run = 1
    /\ prevFile = NoFile
    /\ arg = <<>>
    /\ res = <<>>

NextCollect == CollectDefinitions \/ CreateOutputFile
SpecCollect == InitCollect /\ [][NextCollect]_vars

\* generation is run again on the same schema, options and destination
RunAgain ==
    /\ pc = "returned"
    /\ run < MaxRuns
    /\ run' = run + 1
    /\ prevFile' = file
    /\ pc' = "GenerateTypes"
    /\ err' = ""
    /\ definitions' = NoEntries
    /\ inlineEnums' = NoEntries
    /\ unvisited' = {}
    /\ processedTypes' = {}
    /\ UNCHANGED <<schema, options, file, arg, res>>

NextRerun == Next \/ RunAgain
SpecRerun == Init /\ [][NextRerun]_vars

(***************************************************************************)
(* Properties of the collector and of the emitter                          *)
(***************************************************************************)
\* the entries of the five recognized locations of a document, in the order
\* definitions, $defs, components.schemas, components.contentDescriptors, schemas
\* (a location that is absent or not a map has none)
LocatedEntries(doc) ==
    <<MapAt(doc, k_definitions),
      MapAt(doc, k_defs),
      MapAt(MapAt(doc, k_components), k_schemas),
      MapAt(MapAt(doc, k_components), k_contentDescriptors),
      MapAt(doc, k_schemas)>>
Collected == pc # "GenerateTypes"

\* C2: extractDefinitions returns the union of the entries of every map-shaped
\* location, and a name found in several locations keeps the value of the
\* location latest in the order.
C2_UnionLastWins ==
    Collected =>
        LET located == LocatedEntries(schema.m)
        IN  /\ DOMAIN definitions = UNION {DOMAIN located[i] : i \in DOMAIN located}
            /\ \A name \in DOMAIN definitions :
                 LET latest == CHOOSE i \in DOMAIN located :
                                  /\ name \in DOMAIN located[i]
                                  /\ \A j \in DOMAIN located : j > i => name \notin DOMAIN located[j]
                 IN  definitions[name] = located[latest][name]

\* a name is declared in two locations with different fragments, and collected
C2_Witness ==
    /\ Collected
    /\ LET located == LocatedEntries(schema.m)
       IN  \E i, j \in DOMAIN located : \E name \in DOMAIN located[i] :
              /\ i < j
              /\ name \in DOMAIN located[j]
              /\ located[i][name] # located[j][name]
              /\ definitions[name] = located[j][name]

EmptyInput == \A i \in 1..5 : DOMAIN LocatedEntries(schema.m)[i] = {}

\* C3: a schema with no definition in any of the five locations makes
\* GenerateTypes fail with the empty-schema error, and no step of that run creates
\* or truncates the destination file.
C3_EmptySchemaFails ==
    /\ [](EmptyInput /\ pc = "returned" => err = EmptySchemaError)
    /\ [][EmptyInput => file' = file]_vars

\* an empty schema was rejected and the file that was there is still there
C3_Witness ==
    /\ EmptyInput
    /\ schema.m # NoEntries
    /\ pc = "returned"
    /\ err = EmptySchemaError
    /\ file = StaleFile

\* 1: an inline enum; 2: a definition that is an enum; 3: any other definition
Group(decl) ==
    IF decl.origin = "inline" THEN 1 ELSE IF decl.kind = "enum" THEN 2 ELSE 3
GroupNames(g) == {file.decls[i].name : i \in {j \in DOMAIN file.decls : Group(file.decls[j]) = g}}

\* C4: the declarations are written in one total order: the inline enums sorted by
\* name, then the definitions that are enums sorted by name, then the remaining
\* definitions sorted by name; no struct is written before any enum.
C4_EmissionOrder ==
    /\ \A i, j \in DOMAIN file.decls :
          i < j =>
            \/ Group(file.decls[i]) < Group(file.decls[j])
            \/ /\ Group(file.decls[i]) = Group(file.decls[j])
               /\ StrLess(file.decls[i].name, file.decls[j].name)
    /\ \A i, j \in DOMAIN file.decls :
          file.decls[i].kind = "struct" /\ file.decls[j].kind = "enum" => j < i
    /\ pc \in {"go fmt", "returned"} /\ err = "" =>
          /\ GroupNames(1) = DOMAIN inlineEnums
          /\ GroupNames(2) = {name \in DOMAIN definitions : IsEnumDefinition(definitions[name])}
          /\ GroupNames(3) = {name \in DOMAIN definitions :
                                /\ IsMap(definitions[name])
                                /\ ~IsEnumDefinition(definitions[name])
                                /\ name \notin DOMAIN inlineEnums}

\* a finished run that wrote two inline enums, an enum definition and a struct
C4_Witness ==
    /\ pc = "returned"
    /\ Cardinality(GroupNames(1)) >= 2
    /\ GroupNames(2) # {}
    /\ \E i \in DOMAIN file.decls : file.decls[i].kind = "struct"

\* C5: when emission begins, every type name of the emission namespace (the
\* collected definitions together with the inline enums) is non-empty and unique.
C5_NamespaceUnique ==
    pc = "inlineEnums" =>
        /\ <<>> \notin DOMAIN definitions \cup DOMAIN inlineEnums
        /\ DOMAIN definitions \cap DOMAIN inlineEnums = {}

\* C6: an inline enum is synthesized only if no collected definition has its name,
\* and every collected definition whose fragment is a map is declared exactly once
\* in the output, also when an inline enum derives its name.
C6_NoSilentDrop ==
    pc = "returned" /\ err = "" =>
        /\ DOMAIN inlineEnums \cap DOMAIN definitions = {}
        /\ \A name \in {n \in DOMAIN definitions : IsMap(definitions[n])} :
              LET declared == {i \in DOMAIN file.decls : file.decls[i].name = name}
              IN  /\ Cardinality(declared) = 1
                  /\ \A i \in declared : file.decls[i].origin = "definition"

\* the bytes of the destination: the header and the declarations as written
Bytes(f) ==
    [exists |-> f.exists, header |-> f.header, formatted |-> f.formatted,
     decls |-> [i \in DOMAIN f.decls |->
                  [kind |-> f.decls[i].kind, name |-> f.decls[i].name,
                   comment |-> f.decls[i].comment, goType |-> f.decls[i].goType,
                   consts |-> f.decls[i].consts, fields |-> f.decls[i].fields]]]

\* C1: two runs of GenerateTypes on the same schema and configuration leave
\* byte-identical output, whatever order the maps are iterated in.
C1_Deterministic ==
    pc = "returned" /\ run = 2 => Bytes(file) = Bytes(prevFile)

(***************************************************************************)
(* SpecRender: GenerateTypes on documents built from the example           *)
(* definitions (an enum, a struct with a required property, definitions    *)
(* that carry date and time formats) under "definitions" and "$defs".      *)
(***************************************************************************)
MaxRendered == 2
RenderedLocations == {LocDefinitions, LocDefs}
RenderedFragments ==
    {<<s_Status, "Active">>, <<s_Status, "Status">>, <<s_Foo, "Foo">>, <<s_Foo, "Event">>,
     <<s_Bar, "Dates">>, <<s_Bar, "Stamp">>, <<s_Bar, "Times">>, <<s_Bar, "Alias">>}
RenderedItems == {Entry(loc, d[1], d[2]) : loc \in RenderedLocations, d \in RenderedFragments}
RenderedSchemas == {SchemaOf(I) : I \in ItemSetsUpTo(RenderedItems, MaxRendered)}

InitRender ==
    /\ pc = "GenerateTypes"
    /\ schema \in RenderedSchemas
    /\ options = DefaultOptions
    /\ definitions = NoEntries
    /\ inlineEnums = NoEntries
    /\ unvisited = {}
    /\ processedTypes = {}
    /\ file \in {NoFile, StaleFile}
    /\ err = ""
    /\ run = 1
    /\ prevFile = NoFile
    /\ arg = <<>>
    /\ res = <<>>

SpecRender == InitRender /\ [][Next]_vars

Finished == pc = "returned" /\ err = ""
DeclarationsNamed(name) == {i \in DOMAIN file.decls : file.decls[i].name = name}

\* "$defs": {"Status": {"type":"string","enum":["ACTIVE","INACTIVE"]}} was collected
StatusUnderDefs ==
    /\ s_Status \in DOMAIN MapAt(schema.m, k_defs)
    /\ MapAt(schema.m, k_defs)[s_Status] = ActiveFragment
    /\ s_Status \in DOMAIN definitions
    /\ definitions[s_Status] = ActiveFragment

\* one enum type Status of two constants with the given names, the values ACTIVE
\* and INACTIVE in that order, each of type Status
StatusDeclaredWith(first, second) ==
    /\ Cardinality(DeclarationsNamed(s_Status)) = 1
    /\ \A i \in DeclarationsNamed(s_Status) :
          /\ file.decls[i].kind = "enum"
          /\ file.decls[i].consts =
                <<[name |-> first, type |-> s_Status, value |-> s_ACTIVE],
                  [name |-> second, type |-> s_Status, value |-> s_INACTIVE]>>

\* C11 as stated: the string enum Status ["ACTIVE","INACTIVE"] under $defs yields the
\* enum type Status with exactly the constants StatusACTIVE and StatusINACTIVE, in
\* that order, each of type Status with the original string as its value.
C11_StatusConstantsAsStated ==
    Finished /\ StatusUnderDefs => StatusDeclaredWith(s_StatusACTIVE, s_StatusINACTIVE)

\* C11 amended: the two constants are named StatusActive and StatusInactive (the
\* value passed through toIdentifier, which title-cases a part that is no acronym);
\* the order, the type and the literal values are as stated.
C11_StatusConstants ==
    Finished /\ StatusUnderDefs => StatusDeclaredWith(s_StatusActive, s_StatusInactive)

\* a finished run that collected Status from $defs and declared it
C11_Witness ==
    /\ Finished
    /\ StatusUnderDefs
    /\ DeclarationsNamed(s_Status) # {}

\* the definition has a property level with "enum": ["LEVEL_LOW","LEVEL_HIGH"]
HasLevelProperty(definition) ==
    /\ IsMap(definition)
    /\ MapValueAt(definition.m, k_properties)
    /\ s_level \in DOMAIN definition.m[k_properties].m
    /\ IsMap(definition.m[k_properties].m[s_level])
    /\ ArrAt(definition.m[k_properties].m[s_level].m, k_enum)
    /\ definition.m[k_properties].m[s_level].m[k_enum].a = <<Str(s_LEVEL_LOW), Str(s_LEVEL_HIGH)>>
LevelStructs ==
    {j \in DOMAIN file.decls :
        /\ file.decls[j].kind = "struct"
        /\ file.decls[j].name \in DOMAIN definitions
        /\ HasLevelProperty(definitions[file.decls[j].name])}
\* the type a field names, without the optional wrapper
Unwrapped(type) == TrimPrefix(type, t_pointer)

s_refBar == <<"#","/","d","e","f","i","n","i","t","i","o","n","s","/","B","a","r">>
s_refPointerBar == <<"#","/","d","e","f","i","n","i","t","i","o","n","s","/","*","B","a","r">>
PropertyShapes ==
    {Map(k_type :> Str(s_string) @@ NoEntries),
     Map(k_type :> Str(s_integer) @@ NoEntries),
     Map(k_type :> Str(s_string) @@ k_format :> Str(f_byte)),
     Map(k_type :> Str(s_array) @@ k_items :> Map(k_type :> Str(s_string) @@ NoEntries)),
     Map(k_type :> Str(s_array) @@ NoEntries),
     Map(k_type :> Str(s_object) @@ NoEntries),
     Map(k_ref :> Str(s_refBar) @@ NoEntries),
     Map(k_ref :> Str(s_refPointerBar) @@ NoEntries),
     Map(k_enum :> Arr(<<Str(s_A), Str(s_B)>>) @@ NoEntries),
     Map(NoEntries)}
\* the property without a default, with a default, and with "default": null
WithDefault(shape, default) ==
    IF default = "absent" THEN shape
    ELSE Map(Overwrite(shape.m, k_default :> (IF default = "null" THEN Null ELSE Str(s_A))))
\* "required" absent, naming the property, naming another property among values
\* that are no strings, or not an array at all
RequiredChoices == {"absent", "listed", "others", "string"}
RequiredValue(choice, propName) ==
    IF choice = "listed" THEN Arr(<<Str(propName)>>)
    ELSE IF choice = "others" THEN Arr(<<Num(1), Str(s_mode)>>)
    ELSE Str(propName)
StructOf(call) ==
    LET base == k_type :> Str(s_object) @@
                k_properties :> Map(call.propName :> call.propMap @@ NoEntries)
    IN  IF call.required = "absent" THEN base
        ELSE base @@ k_required :> RequiredValue(call.required, call.propName)

InitStruct ==
    /\ pc = "generateComplexType"
    /\ arg \in [propName : {s_bar, s_user_id},
                propMap : {WithDefault(shape, default) :
                              shape \in PropertyShapes, default \in {"absent", "value", "null"}},
                required : RequiredChoices]
    /\ res = <<>>
    /\ GeneratorIdle

GenerateComplexTypeCall ==
    /\ pc = "generateComplexType"
    /\ res' = <<generateComplexType(s_Foo, StructOf(arg), NoEntries, DefaultAcronyms,
                                    DefaultOptions)>>
    /\ pc' = "structDone"
    /\ UNCHANGED <<arg, generatorVars>>

NextStruct == GenerateComplexTypeCall
SpecStruct == InitStruct /\ [][NextStruct]_vars

\* what the claims say of the call: the property is listed in required, has a
\* default key, and the type resolve gives it
Listed == arg.required = "listed"
HasDefaultKey == k_default \in DOMAIN arg.propMap.m
Resolved ==
    IF NonEmptyArrAt(arg.propMap.m, k_enum)
    THEN deriveEnumTypeName(arg.propMap.m[k_enum].a, arg.propName, DefaultAcronyms)
    ELSE determineGoType(arg.propMap.m, NoEntries)
SequenceOrMap(type) == HasPrefix(type, t_slice) \/ HasPrefix(type, t_mapPrefix)
OneField == pc = "structDone" /\ res[1].kind = "struct" /\ Len(res[1].fields) = 1
IsWrapped == res[1].fields[1].type = t_pointer \o Resolved
IsBare == res[1].fields[1].type = Resolved

\* C13 as stated: the type of a property is wrapped in the optional wrapper if and
\* only if the property is not listed in required, has no default key, and its
\* resolved type is not a sequence or a map; otherwise it is the resolved type.
C13_WrappedIffAsStated ==
    OneField =>
        IF ~Listed /\ ~HasDefaultKey /\ ~SequenceOrMap(Resolved) THEN IsWrapped ELSE IsBare

\* C13 amended: ... and its resolved type is not a sequence or a map and does not
\* already begin with the wrapper.
C13_WrappedIff ==
    OneField =>
        IF /\ ~Listed
           /\ ~HasDefaultKey
           /\ ~SequenceOrMap(Resolved)
           /\ ~HasPrefix(Resolved, t_pointer)
        THEN IsWrapped /\ ~IsBare
        ELSE IsBare

\* a property with "default": null that required does not list was rendered bare,
\* and a required property without a default was rendered bare
C13_Witness ==
    /\ OneField
    /\ IsBare
    /\ \/ ~Listed /\ HasDefaultKey /\ arg.propMap.m[k_default] = Null
       \/ Listed /\ ~HasDefaultKey /\ ~SequenceOrMap(Resolved)

\* C14: the tag of a struct field is the property name verbatim and omitempty is
\* there exactly when required does not list the property; Foo with the required
\* string property bar gives one string field tagged bar without omitempty.
C14_TagAndOmitEmpty ==
    OneField =>
        /\ res[1].fields[1].tag = arg.propName
        /\ res[1].fields[1].omitempty = ~Listed
        /\ StructOf(arg) = FooFragment.m =>
              /\ res[1].name = s_Foo
              /\ res[1].fields = <<[name |-> s_Bar, type |-> t_string, tag |-> s_bar,
                                    omitempty |-> FALSE]>>

\* the property user_id (field UserID) with a default and not required was rendered
C14_Witness ==
    /\ OneField
    /\ arg.propName = s_user_id
    /\ res[1].fields[1].name # arg.propName
    /\ HasDefaultKey
    /\ ~Listed
    /\ res[1].fields[1].omitempty

(***************************************************************************)
(* SpecResolve: determineGoType on one fragment, call by call. res.stack   *)
(* holds the fragments of the calls in progress; the innermost call either *)
(* calls determineGoType on a nested fragment or returns, and then every   *)
(* pending call returns and res.type is the type returned.                 *)
(***************************************************************************)
MaxDepth == 4
s_refA == <<"#","/","d","e","f","i","n","i","t","i","o","n","s","/","A">>
s_refB == <<"#","/","d","e","f","i","n","i","t","i","o","n","s","/","B">>
s_foo == <<"f","o","o">>
s_a == <<"a">>

\* the fragment determineGoType calls itself on, if any
RefTarget(propMap) == Last(Split(propMap[k_ref].s, "/"))

\* a variant that resolves the definition a $ref names
NestedFragment_FollowsRef(propMap, defs) ==
    IF StrAt(propMap, k_ref)
    THEN IF RefTarget(propMap) \in DOMAIN defs /\ IsMap(defs[RefTarget(propMap)])
         THEN <<defs[RefTarget(propMap)].m>>
         ELSE <<>>
    ELSE IF StrAt(propMap, k_type) /\ propMap[k_type].s = s_array
         THEN IF MapValueAt(propMap, k_items) THEN <<propMap[k_items].m>> ELSE <<>>
    ELSE IF /\ StrAt(propMap, k_type) /\ propMap[k_type].s = s_object
            /\ MapValueAt(propMap, k_additionalProperties)
         THEN <<propMap[k_additionalProperties].m>>
    ELSE <<>>

NestedFragment(propMap, defs) ==
    IF StrAt(propMap, k_ref) THEN <<>>
    ELSE IF StrAt(propMap, k_type) /\ propMap[k_type].s = s_array
         THEN IF MapValueAt(propMap, k_items) THEN <<propMap[k_items].m>> ELSE <<>>
    ELSE IF /\ StrAt(propMap, k_type) /\ propMap[k_type].s = s_object
            /\ MapValueAt(propMap, k_additionalProperties)
         THEN <<propMap[k_additionalProperties].m>>
    ELSE <<>>

\* the keys a fragment is put together from
RefChoices == {NoEntries, k_ref :> Str(s_refA)}
TypeChoices ==
    {NoEntries,
     k_type :> Str(s_array),
     k_type :> Str(s_array) @@ k_items :> Map(k_type :> Str(s_string) @@ NoEntries),
     k_type :> Str(s_array) @@
        k_items :> Map(k_type :> Str(s_array) @@ k_items :> Map(k_ref :> Str(s_refA) @@ NoEntries)),
     k_type :> Str(s_string),
     k_type :> Str(s_string) @@ k_format :> Str(f_date_time),
     k_type :> Str(s_integer) @@ k_format :> Str(f_int32),
     k_type :> Str(s_number),
     k_type :> Str(s_boolean),
     k_type :> Str(s_object),
     k_type :> Str(s_object) @@
        k_additionalProperties :> Map(k_ref :> Str(s_refB) @@ NoEntries),
     k_type :> Str(s_object) @@ k_additionalProperties :> Bool(TRUE),
     k_type :> Str(s_null),
     k_type :> Str(s_foo)}
UnionChoices ==
    {NoEntries,
     k_oneOf :> Arr(<<>>),
     k_oneOf :> Arr(<<Map(NoEntries)>>),
     k_anyOf :> Arr(<<Map(NoEntries)>>),
     k_allOf :> Arr(<<Map(NoEntries)>>)}
ConstChoices == {NoEntries, k_const :> Null}
EnumChoices ==
    {NoEntries,
     k_enum :> Arr(<<>>),
     k_enum :> Arr(<<Str(s_a)>>),
     k_enum :> Arr(<<Num(1), Str(s_a)>>),
     k_enum :> Arr(<<IntNum(1), Str(s_a)>>),
     k_enum :> Arr(<<Bool(TRUE), Str(s_a)>>),
     k_enum :> Arr(<<Null, Str(s_a)>>),
     k_enum :> Arr(<<Map(NoEntries), IntNum(1)>>),
     k_enum :> Arr(<<Null>>)}
ResolvedFragments ==
    {ref @@ type @@ union @@ const @@ enum :
        ref \in RefChoices, type \in TypeChoices, union \in UnionChoices,
        const \in ConstChoices, enum \in EnumChoices}
\* no definitions, definitions without a cycle, and definitions A and B that refer
\* to each other through $ref
PlainDefinitions == s_A :> Map(k_type :> Str(s_string) @@ NoEntries)
CyclicDefinitions ==
    s_A :> Map(k_ref :> Str(s_refB) @@ NoEntries) @@
    s_B :> Map(k_type :> Str(s_array) @@ k_items :> Map(k_ref :> Str(s_refA) @@ NoEntries))

InitResolve ==
    /\ pc = "determineGoType"
    /\ arg \in [frag : ResolvedFragments,
                defs : {NoEntries, PlainDefinitions, CyclicDefinitions}]
    /\ res = [stack |-> <<Map(arg.frag)>>, type |-> <<>>]
    /\ GeneratorIdle

\* the innermost call reaches determineGoType(items, definitions) or
\* determineGoType(additionalPropsMap, definitions)
ResolveNested ==
    /\ pc = "determineGoType"
    /\ Len(res.stack) < MaxDepth
    /\ NestedFragment(Last(res.stack).m, arg.defs) # <<>>
    /\ res' = [res EXCEPT !.stack =
                  Append(@, Map(NestedFragment(Last(res.stack).m, arg.defs)[1]))]
    /\ UNCHANGED <<pc, arg, generatorVars>>

\* the innermost call returns without a nested call, and so does every pending call
ResolveReturn ==
    /\ pc = "determineGoType"
    /\ NestedFragment(Last(res.stack).m, arg.defs) = <<>>
    /\ res' = [stack |-> <<>>, type |-> determineGoType(arg.frag, arg.defs)]
    /\ pc' = "resolved"
    /\ UNCHANGED <<arg, generatorVars>>

NextResolve == ResolveNested \/ ResolveReturn
SpecResolve == InitResolve /\ [][NextResolve]_vars /\ WF_vars(NextResolve)

\* The precedence of section 4.3, independent of the code: the first rule a
\* fragment matches, and what that rule alone allows as the result.
PrimitiveTypeNames == {s_string, s_integer, s_number, s_boolean, s_object, s_null}
Rule(m) ==
    IF StrAt(m, k_ref) THEN "ref"
    ELSE IF StrAt(m, k_type) /\ m[k_type].s = s_array THEN "array"
    ELSE IF StrAt(m, k_type) /\ m[k_type].s \in PrimitiveTypeNames THEN "primitive"
    ELSE IF \E key \in {k_oneOf, k_anyOf, k_allOf} : NonEmptyArrAt(m, key) THEN "union"
    ELSE IF Has(m, k_const) THEN "const"
    ELSE IF NonEmptyArrAt(m, k_enum) THEN "enum"
    ELSE "fallback"
AllowedBy(rule, m, type) ==
    IF rule = "ref" THEN type = Last(Split(m[k_ref].s, "/"))
    ELSE IF rule = "array" THEN HasPrefix(type, t_slice)
    ELSE IF rule = "primitive"
         THEN IF m[k_type].s = s_string THEN type \in {t_string, t_timeTime, t_bytes}
              ELSE IF m[k_type].s = s_integer THEN type \in {t_int, t_int32, t_int64}
              ELSE IF m[k_type].s = s_number THEN type \in {t_float32, t_float64}
              ELSE IF m[k_type].s = s_boolean THEN type = t_bool
              ELSE IF m[k_type].s = s_object THEN HasPrefix(type, t_mapString)
              ELSE type = t_any
    ELSE IF rule = "enum" THEN type \in {t_string, t_float64, t_int, t_bool, t_any}
    ELSE type = t_any
ResolvedAs(rule) == pc = "resolved" /\ Rule(arg.frag) = rule

\* C15: determineGoType applies its rules in the precedence $ref, array, primitive
\* type, non-empty oneOf/anyOf/allOf, const, enum without type, fallback, and the
\* first rule that matches alone decides: a $ref gives its final path segment
\* whatever else the fragment carries, a primitive type wins over a non-empty
\* oneOf, and a fragment with no information gives any.
C15_FirstMatchDecides ==
    pc = "resolved" =>
        /\ AllowedBy(Rule(arg.frag), arg.frag, res.type)
        /\ StrAt(arg.frag, k_ref) => res.type = s_A
        /\ arg.frag = NoEntries => res.type = t_any

\* a fragment with a primitive type, a non-empty oneOf, a const and an enum was
\* resolved to the type of the primitive
C15_Witness ==
    /\ ResolvedAs("primitive")
    /\ NonEmptyArrAt(arg.frag, k_oneOf)
    /\ Has(arg.frag, k_const)
    /\ NonEmptyArrAt(arg.frag, k_enum)
    /\ res.type = t_int32

\* The names a value refers to through $ref, and the names reached from them.
RECURSIVE RefTargets(_)
RefTargets(v) ==
    IF IsMap(v)
    THEN (IF StrAt(v.m, k_ref) THEN {Last(Split(v.m[k_ref].s, "/"))} ELSE {})
         \cup UNION {RefTargets(v.m[key]) : key \in DOMAIN v.m}
    ELSE IF IsArr(v) THEN UNION {RefTargets(v.a[i]) : i \in DOMAIN v.a}
    ELSE {}
RECURSIVE RefClosure(_, _, _)
RefClosure(defs, names, n) ==
    IF n = 0 THEN names
    ELSE RefClosure(defs,
                    names \cup UNION {RefTargets(defs[x]) : x \in names \cap DOMAIN defs},
                    n - 1)
ReachedFrom(defs, v) == RefClosure(defs, RefTargets(v), Cardinality(DOMAIN defs))
OnCycle(defs) == {name \in DOMAIN defs : name \in ReachedFrom(defs, defs[name])}
\* the fragment being resolved refers into a cycle of definitions
CyclicCall == ReachedFrom(arg.defs, Map(arg.frag)) \cap OnCycle(arg.defs) # {}
\* how deep items and additionalProperties are nested in a fragment
RECURSIVE Nesting(_)
Nesting(m) ==
    LET inner == {key \in {k_items, k_additionalProperties} : MapValueAt(m, key)}
    IN  IF inner = {} THEN 0
        ELSE 1 + (LET depths == {Nesting(m[key].m) : key \in inner}
                  IN  CHOOSE d \in depths : \A e \in depths : e <= d)

\* C16 as stated: resolving a fragment of a schema whose definitions refer to each
\* other cyclically through $ref never returns.
C16_NeverReturnsAsStated == CyclicCall => pc # "resolved"

\* C16 amended: resolving such a fragment returns: determineGoType never looks a
\* $ref up, so its calls nest no deeper than items and additionalProperties are
\* nested in the fragment itself, and a $ref gives its final path segment.
C16_ResolveReturns ==
    /\ (CyclicCall ~> pc = "resolved")
    /\ [](pc = "determineGoType" => Len(res.stack) <= 1 + Nesting(arg.frag))
    /\ [](ResolvedAs("ref") => res.type = s_A)

\* a fragment that is an array of arrays of references into the cycle was resolved
C16_Witness ==
    /\ CyclicCall
    /\ pc = "resolved"
    /\ Nesting(arg.frag) = 2
    /\ HasPrefix(res.type, t_slice \o t_slice)

\* the kind of one enum value as a type
KindType(v) ==
    IF v.k = "string" THEN t_string
    ELSE IF v.k = "number" THEN t_float64
    ELSE IF v.k = "int" THEN t_int
    ELSE IF v.k = "bool" THEN t_bool
    ELSE t_any

\* C20: for a fragment with a non-empty enum and no type, $ref, union or const, the
\* type is inferred from the first enum value only: string, float, integer or bool
\* give the primitive, and any other first value gives any whatever follows it.
C20_FirstValueDecides ==
    ResolvedAs("enum") => res.type = KindType(arg.frag[k_enum].a[1])

(***************************************************************************)
(* C17: the import of "time"                                               *)
(***************************************************************************)
\* some fragment inside v, at any depth, is a string with a date/time format
RECURSIVE HasTimeString(_)
HasTimeString(v) ==
    \/ /\ IsMap(v)
       /\ \/ /\ Has(v.m, k_type) /\ v.m[k_type] = Str(s_string)
             /\ Has(v.m, k_format)
             /\ v.m[k_format] \in {Str(f_date_time), Str(f_date), Str(f_time)}
          \/ \E key \in DOMAIN v.m : HasTimeString(v.m[key])
    \/ IsArr(v) /\ \E i \in DOMAIN v.a : HasTimeString(v.a[i])

ImportsTime == Finished /\ file.exists /\ file.header[1].importTime

\* C17: the written file imports "time" only if some collected definition
\* contains, at some depth, a string fragment whose format is date-time, date
\* or time.
C17_ImportOnlyForTimeStrings ==
    ImportsTime => \E name \in DOMAIN definitions : HasTimeString(definitions[name])

(***************************************************************************)
(* SpecRegistry: the registry of generators and the choice of a generator  *)
(* in main. The registry is filled by the init functions of the generator  *)
(* packages before main runs; main is run MaxRuns times on one command     *)
(* line. res.matches is what GetByFormat returned, res.used the name of    *)
(* the generator of each run that got as far as generating.                *)
(***************************************************************************)
s_jsonrpc == <<"j","s","o","n","r","p","c">>
s_openapi == <<"o","p","e","n","a","p","i">>
s_ext_json == <<".","j","s","o","n">>
s_ext_yaml == <<".","y","a","m","l">>
s_ext_yml == <<".","y","m","l">>
s_schema_json == <<"s","c","h","e","m","a",".","j","s","o","n">>
s_SCHEMA_JSON == <<"S","C","H","E","M","A",".","J","S","O","N">>
s_api_yaml == <<"a","p","i",".","y","a","m","l">>
s_api_yml == <<"a","p","i",".","y","m","l">>
s_schema_txt == <<"s","c","h","e","m","a",".","t","x","t">>
s_json == <<"j","s","o","n">>

JSONRPCGenerator == [name |-> s_jsonrpc, formats |-> <<s_ext_json, s_ext_yaml, s_ext_yml>>]
OpenAPIGenerator == [name |-> s_openapi, formats |-> <<s_ext_json, s_ext_yaml, s_ext_yml>>]
UnnamedGenerator == [name |-> <<>>, formats |-> <<s_ext_json>>]

NewRegistry == <<>>

\* a variant in which a later Register of a name replaces the generator
Register_LastWins(generators, generator) ==
    IF generator.name = <<>> THEN generators
    ELSE (generator.name :> generator) @@ generators

\* Registry.Register: an empty name and a name already registered are errors
\* and leave the registry as it was
Register(generators, generator) ==
    IF generator.name = <<>> THEN generators
    ELSE IF generator.name \in DOMAIN generators THEN generators
    ELSE (generator.name :> generator) @@ generators

RECURSIVE RegisterAll(_)
RegisterAll(initOrder) ==
    IF initOrder = <<>> THEN NewRegistry
    ELSE Register(RegisterAll(SubSeq(initOrder, 1, Len(initOrder) - 1)),
                  initOrder[Len(initOrder)])

Registries ==
    {RegisterAll(initOrder) :
        initOrder \in UNION {[1..k -> {JSONRPCGenerator, OpenAPIGenerator, UnnamedGenerator}] :
                                k \in 0..2}}

\* the generators GetByFormat appends: some supported format is a suffix of
\* the lower-cased path
Matching(generators, filePath) ==
    {name \in DOMAIN generators :
        \E i \in DOMAIN generators[name].formats :
            HasSuffix(ToLower(filePath), generators[name].formats[i])}

\* Registry.GetByFormat ranges over the map r.generators, whose iteration
\* order the language leaves open: every order of the matching generators is
\* a possible result
GetByFormat(generators, filePath) ==
    LET found == Matching(generators, filePath)
    IN  {matches \in [1..Cardinality(found) -> found] :
            \A i, j \in DOMAIN matches : matches[i] = matches[j] => i = j}

SchemaPaths == {s_schema_json, s_SCHEMA_JSON, s_api_yaml, s_api_yml, s_schema_txt, s_json}
GeneratorFlags == {<<>>, s_jsonrpc, s_openapi}

InitRegistry ==
    /\ pc = "main"
    /\ arg \in [generators : Registries, schemaFile : SchemaPaths,
                generatorName : GeneratorFlags]
    /\ res = [matches |-> <<>>, used |-> <<>>]
    /\ GeneratorIdle

\* main, -generator given: codegen.Get
MainGet ==
    /\ pc = "main"
    /\ arg.generatorName # <<>>
    /\ IF arg.generatorName \in DOMAIN arg.generators
       THEN /\ res' = [res EXCEPT !.used = Append(@, arg.generatorName)]
            /\ pc' = "Generate"
       ELSE /\ pc' = "fatal"
            /\ UNCHANGED res
    /\ UNCHANGED <<arg, generatorVars>>

\* main, no -generator: codegen.GetByFormat(schemaFile)
MainGetByFormat ==
    /\ pc = "main"
    /\ arg.generatorName = <<>>
    /\ \E matches \in GetByFormat(arg.generators, arg.schemaFile) :
          res' = [res EXCEPT !.matches = matches]
    /\ pc' = "GetByFormat"
    /\ UNCHANGED <<arg, generatorVars>>

\* main: no candidate is fatal, otherwise generators[0] is used
MainSelect ==
    /\ pc = "GetByFormat"
    /\ IF res.matches = <<>>
       THEN /\ pc' = "fatal"
            /\ UNCHANGED res
       ELSE /\ res' = [res EXCEPT !.used = Append(@, res.matches[1])]
            /\ pc' = "Generate"
    /\ UNCHANGED <<arg, generatorVars>>

\* the same command line is run again, with the registry filled as before
MainAgain ==
    /\ pc = "Generate"
    /\ Len(res.used) < MaxRuns
    /\ res' = [res EXCEPT !.matches = <<>>]
    /\ pc' = "main"
    /\ UNCHANGED <<arg, generatorVars>>

NextRegistry == MainGet \/ MainGetByFormat \/ MainSelect \/ MainAgain
SpecRegistry == InitRegistry /\ [][NextRegistry]_vars

\* C18: with the same registered generators and the same path, the generator
\* main selects by format is the same on every run, and the candidates are
\* exactly the registered generators with a supported suffix matching the path.
C18_SameGeneratorEveryRun ==
    /\ \A i, j \in DOMAIN res.used : res.used[i] = res.used[j]
    /\ pc = "GetByFormat" =>
          {res.matches[i] : i \in DOMAIN res.matches}
              = Matching(arg.generators, arg.schemaFile)

(***************************************************************************)
(* SpecEnum: an inline enum written twice, once from the enum array as the *)
(* document has it and once from a permutation of it. The type name is     *)
(* derived from the array handed in, as GenerateTypes does for an inline   *)
(* enum. res holds the declarations written so far.                        *)
(***************************************************************************)
MaxPermuted == 3
s__A == <<"_","A">>
s_A_A == <<"A","_","A">>
s_A_B == <<"A","_","B">>
EnumLiterals == {Str(<<>>), Str(s__A), Str(s_A), Str(s_A_A), Str(s_A_B), Num(1)}
Orders(n) == {p \in [1..n -> 1..n] : \A i, j \in 1..n : p[i] = p[j] => i = j}
EnumCalls ==
    UNION {{[values |-> values, permuted |-> [i \in 1..n |-> values[p[i]]],
             propName |-> s_flag] : values \in [1..n -> EnumLiterals], p \in Orders(n)} :
           n \in 0..MaxPermuted}

EnumOf(enumValues, propName) ==
    generateEnumType("inline", deriveEnumTypeName(enumValues, propName, DefaultAcronyms),
                     (k_enum :> Arr(enumValues)), enumValues, DefaultAcronyms,
                     DefaultOptions)

InitEnum ==
    /\ pc = "generateEnumType"
    /\ arg \in EnumCalls
    /\ res = <<>>
    /\ GeneratorIdle

GenerateEnumTypeCall ==
    /\ pc = "generateEnumType"
    /\ res' = <<EnumOf(arg.values, arg.propName)>>
    /\ pc' = "permuted"
    /\ UNCHANGED <<arg, generatorVars>>

GenerateEnumTypePermuted ==
    /\ pc = "permuted"
    /\ res' = Append(res, EnumOf(arg.permuted, arg.propName))
    /\ pc' = "enumDone"
    /\ UNCHANGED <<arg, generatorVars>>

NextEnum == GenerateEnumTypeCall \/ GenerateEnumTypePermuted
SpecEnum == InitEnum /\ [][NextEnum]_vars

\* a is b or comes before b byte by byte
LexLeq(a, b) ==
    \E k \in 0..Len(a) :
        /\ k <= Len(b)
        /\ SubSeq(a, 1, k) = SubSeq(b, 1, k)
        /\ \/ k = Len(a)
           \/ k < Len(b) /\ Code[a[k + 1]] < Code[b[k + 1]]

SortedByValue(decl) ==
    \A i \in 1..(Len(decl.consts) - 1) :
        LexLeq(decl.consts[i].value, decl.consts[i + 1].value)

\* C19: the constants of every emitted enum are in lexicographic order of
\* their literal values, and the declaration written from a permutation of the
\* enum array is the declaration written from the array itself.
C19_SortedAndPermutationInvariant ==
    /\ \A i \in DOMAIN res : SortedByValue(res[i])
    /\ pc = "enumDone" => res[1] = res[2]

C19_Witness ==
    /\ pc = "enumDone"
    /\ arg.permuted # arg.values
    /\ Len(res[2].consts) >= 2
    /\ res[2].consts[1].value # res[2].consts[2].value
    /\ arg.permuted[1] = Str(res[2].consts[2].value)

(***************************************************************************)
(* C23: what findCommonPrefix returns is a prefix of its inputs            *)
(***************************************************************************)
\* C23: a non-empty result of findCommonPrefix, with at most its final "_"
\* removed, is a literal prefix of every input string, and the result itself
\* is a literal prefix of some input string.
C23_ResultIsPrefix ==
    pc = "deriveEnumTypeName" /\ res[1] # <<>> =>
        LET strs == StringValues(arg.values)
        IN  /\ IsCommonPrefix(TrimSuffix(res[1], <<"_">>), strs)
            /\ \E i \in DOMAIN strs : HasPrefix(strs[i], res[1])

\* the second alternative accepted the prefix: the result is longer than the
\* common prefix and one input does not start with it
C23_Witness ==
    /\ pc = "deriveEnumTypeName"
    /\ res[1] # <<>>
    /\ Len(StringValues(arg.values)) >= 2
    /\ ~IsCommonPrefix(res[1], StringValues(arg.values))

(***************************************************************************)
(* C24: every use of time.Time has its import                              *)
(***************************************************************************)
Contains(s, part) ==
    \E i \in 1..(Len(s) - Len(part) + 1) : SubSeq(s, i, i + Len(part) - 1) = part

UsesTime(decl) ==
    \/ Contains(decl.goType, t_timeTime)
    \/ \E i \in DOMAIN decl.fields : Contains(decl.fields[i].type, t_timeTime)

\* C24: whenever a written declaration has a type expression that is or
\* contains time.Time, the header of the file imports "time".
C24_TimeImported ==
    Finished /\ file.exists /\ (\E i \in DOMAIN file.decls : UsesTime(file.decls[i]))
        => file.header[1].importTime

(***************************************************************************)
(* SpecMain: one run of main from the command line to the call of          *)
(* GenerateTypes: the choice of the generator, ValidateSchema, the options *)
(* built from the flags and the generator's Generate. res.config is the    *)
(* options value main hands to Generate, res.options the GeneratorOptions  *)
(* Generate hands to GenerateTypes.                                        *)
(***************************************************************************)
\* the switch on the suffix of schemaPath in GenerateTypes and ValidateSchema
SuffixDispatch(schemaPath) ==
    IF HasSuffix(schemaPath, s_ext_json) THEN "json"
    ELSE IF HasSuffix(schemaPath, s_ext_yaml) \/ HasSuffix(schemaPath, s_ext_yml) THEN "yaml"
    ELSE "unsupported"

\* main: the options value by generator name; the one for openapi is a pointer
\* to an anonymous struct
BuildOptions(generatorName, flags) ==
    IF generatorName = s_jsonrpc
    THEN <<[type |-> "*jrpc.Options", PackageName |-> s_types,
            IncludeComments |-> ~flags.noComments, FormatOutput |-> ~flags.noFormat,
            CustomAcronyms |-> flags.acronyms]>>
    ELSE IF generatorName = s_openapi
    THEN <<[type |-> "*struct", PackageName |-> s_types,
            IncludeComments |-> ~flags.noComments, FormatOutput |-> ~flags.noFormat,
            CustomAcronyms |-> NoEntries]>>
    ELSE <<>>

\* JSONRPCGenerator.Generate: the options GenerateTypes is called with
JSONRPCGenerate(config) ==
    LET given == config.Options # <<>>
                 /\ config.Options[1].type \in {"*jrpc.Options", "*jrpc.GeneratorOptions"}
        opts == IF given
                   THEN [PackageName |-> config.Options[1].PackageName,
                         CustomAcronyms |-> config.Options[1].CustomAcronyms,
                         IncludeComments |-> config.Options[1].IncludeComments,
                         FormatOutput |-> config.Options[1].FormatOutput]
                   ELSE [PackageName |-> config.PackageName, CustomAcronyms |-> NoEntries,
                         IncludeComments |-> TRUE, FormatOutput |-> TRUE]
    IN  IF config.PackageName # <<>>
        THEN [opts EXCEPT !.PackageName = config.PackageName]
        ELSE opts

\* OpenAPIGenerator.Generate: only a *openapi.Options is taken over
OpenAPIGenerate(config) ==
    LET given == config.Options # <<>> /\ config.Options[1].type = "*openapi.Options"
        opts == IF given
                   THEN [PackageName |-> config.Options[1].PackageName,
                         IncludeComments |-> config.Options[1].IncludeComments,
                         FormatOutput |-> config.Options[1].FormatOutput]
                   ELSE [PackageName |-> config.PackageName,
                         IncludeComments |-> TRUE, FormatOutput |-> TRUE]
        named == IF config.PackageName # <<>>
                 THEN [opts EXCEPT !.PackageName = config.PackageName]
                 ELSE opts
    IN  [PackageName |-> named.PackageName, CustomAcronyms |-> NoEntries,
         IncludeComments |-> named.IncludeComments, FormatOutput |-> named.FormatOutput]

InitMain ==
    /\ pc = "main"
    /\ arg \in [generators : Registries, schemaFile : SchemaPaths,
                generatorName : GeneratorFlags, noComments : BOOLEAN,
                noFormat : BOOLEAN, acronyms : CustomAcronymChoices]
    /\ res = [matches |-> <<>>, used |-> <<>>, config |-> <<>>, options |-> <<>>]
    /\ GeneratorIdle

\* generator.ValidateSchema: both generators end in jrpc.ValidateSchema, which
\* reads the file, then looks at the suffix, then parses and collects; what
\* the file holds is left open
MainValidateSchema ==
    /\ pc = "Generate"
    /\ \/ pc' = "fatal"
       \/ pc' = IF SuffixDispatch(arg.schemaFile) = "unsupported"
                THEN "unsupported format"
                ELSE "ValidateSchema"
    /\ UNCHANGED <<arg, res, generatorVars>>

\* main: switch generator.Name()
MainBuildOptions ==
    /\ pc = "ValidateSchema"
    /\ res' = [res EXCEPT !.config = BuildOptions(Last(res.used), arg)]
    /\ pc' = "config"
    /\ UNCHANGED <<arg, generatorVars>>

\* main: generator.Generate(config), up to the call of GenerateTypes
MainGenerate ==
    /\ pc = "config"
    /\ LET config == [SchemaPath |-> arg.schemaFile, PackageName |-> s_types,
                      Options |-> res.config]
       IN  res' = [res EXCEPT !.options =
                      <<IF Last(res.used) = s_jsonrpc
                        THEN JSONRPCGenerate(config)
                        ELSE OpenAPIGenerate(config)>>]
    /\ pc' = "GenerateTypes"
    /\ UNCHANGED <<arg, generatorVars>>

NextMain ==
    \/ MainGet \/ MainGetByFormat \/ MainSelect
    \/ MainValidateSchema \/ MainBuildOptions \/ MainGenerate
SpecMain == InitMain /\ [][NextMain]_vars

\* C26: a schema path for which GetByFormat returns a generator never fails
\* with the unsupported-format error of the suffix dispatch.
C26_MatchedPathAccepted ==
    pc = "unsupported format" => Matching(arg.generators, arg.schemaFile) = {}

\* a definition with a description, as GenerateTypes would render it
s_note == <<"n","o","t","e">>
Described == k_type :> Str(s_object) @@ k_description :> Str(s_note)

\* C22: the flags of the command line reach GenerateTypes for whichever
\* generator is selected: with -no-comments no description comment is written,
\* with -no-format the formatter is not run, and the -acronyms overrides are
\* the custom acronyms.
C22_FlagsReachGenerateTypes ==
    pc = "GenerateTypes" =>
        /\ arg.noComments => DescriptionComment(Described, res.options[1]) = <<>>
        /\ arg.noFormat => ~res.options[1].FormatOutput
        /\ res.options[1].CustomAcronyms = arg.acronyms

(***************************************************************************)
(* SpecRegister: a registry under any sequence of Register, Get and List   *)
(* calls. res.generators is the map r.generators, res.log the Register     *)
(* calls made so far with what each returned, res.got and res.names what   *)
(* the last Get and the last List returned.                                *)
(***************************************************************************)
MaxRegistered == 3
\* a second generator that calls itself jsonrpc
OtherGenerator == [name |-> s_jsonrpc, formats |-> <<s_ext_json>>]
GeneratorPool == {JSONRPCGenerator, OpenAPIGenerator, UnnamedGenerator, OtherGenerator}

\* Registry.Register returns an error
RegisterFails(generators, generator) ==
    generator.name = <<>> \/ generator.name \in DOMAIN generators

\* Registry.Get
Get(generators, name) ==
    IF name \in DOMAIN generators
    THEN [name |-> name, generator |-> <<generators[name]>>, err |-> FALSE]
    ELSE [name |-> name, generator |-> <<>>, err |-> TRUE]

\* Registry.List appends the names while ranging over the map: every order of
\* the keys is a possible result
List(generators) ==
    {names \in [1..Cardinality(DOMAIN generators) -> DOMAIN generators] :
        \A i, j \in DOMAIN names : names[i] = names[j] => i = j}

InitRegister ==
    /\ pc = "NewRegistry"
    /\ arg = <<>>
    /\ res = [generators |-> NewRegistry, log |-> <<>>, got |-> <<>>, names |-> <<>>]
    /\ GeneratorIdle

RegisterCall ==
    /\ Len(res.log) < MaxRegistered
    /\ \E generator \in GeneratorPool :
          res' = [res EXCEPT
                     !.generators = Register(@, generator),
                     !.log = Append(@, [generator |-> generator,
                                        err |-> RegisterFails(res.generators, generator)])]
    /\ pc' = "Register"
    /\ UNCHANGED <<arg, generatorVars>>

GetCall ==
    /\ \E name \in {s_jsonrpc, s_openapi, <<>>} :
          res' = [res EXCEPT !.got = <<Get(res.generators, name)>>]
    /\ pc' = "Get"
    /\ UNCHANGED <<arg, generatorVars>>

ListCall ==
    /\ \E names \in List(res.generators) : res' = [res EXCEPT !.names = names]
    /\ pc' = "List"
    /\ UNCHANGED <<arg, generatorVars>>

NextRegister == RegisterCall \/ GetCall \/ ListCall
SpecRegister == InitRegister /\ [][NextRegister]_vars

\* the Register calls before call i that carried the same name
EarlierSameName(i) ==
    {j \in 1..(i - 1) : res.log[j].generator.name = res.log[i].generator.name}
\* the calls that were the first to carry their (non-empty) name
FirstCalls ==
    {i \in DOMAIN res.log : res.log[i].generator.name # <<>> /\ EarlierSameName(i) = {}}
Registered == {res.log[i].generator.name : i \in FirstCalls}

\* C21: after any sequence of Register calls each name maps to the generator
\* of the first successful Register for it; a Register with an empty or an
\* already registered name returns an error and changes nothing; Get returns
\* that generator exactly for the registered names and an error otherwise;
\* List returns each registered name exactly once.
C21_FirstRegisterWins ==
    /\ \A i \in DOMAIN res.log : res.log[i].err <=> i \notin FirstCalls
    /\ DOMAIN res.generators = Registered
    /\ \A i \in FirstCalls :
          res.generators[res.log[i].generator.name] = res.log[i].generator
    /\ pc = "Get" =>
          LET got == res.got[1]
          IN  /\ got.err <=> got.name \notin Registered
              /\ \A i \in FirstCalls :
                    res.log[i].generator.name = got.name
                        => got.generator = <<res.log[i].generator>>
    /\ pc = "List" =>
          /\ {res.names[i] : i \in DOMAIN res.names} = Registered
          /\ Len(res.names) = Cardinality(Registered)

\* jsonrpc was registered twice with different generators, and Get and List
\* were called afterwards
C21_Witness ==
    /\ pc = "List"
    /\ Len(res.names) = 2
    /\ \E i, j \in DOMAIN res.log :
          /\ i < j
          /\ res.log[i].generator = JSONRPCGenerator
          /\ res.log[j].generator = OtherGenerator
          /\ res.log[j].err
    /\ res.got # <<>> /\ res.got[1].generator = <<JSONRPCGenerator>>

(***************************************************************************)
(* SpecPairs: a struct with two properties and an enum with two values,    *)
(* each written by its generator. res holds the declarations written.      *)
(***************************************************************************)
s_a_dash_b == <<"a","-","b">>
s_a_b == <<"a","_","b">>
s_ab == <<"a","b">>
PropertyNames == {s_user_id, s_userId, s_apiKey, s_id_url, s_bar, s_foo}
EnumValues == {s_a_dash_b, s_a_b, s_ab, s_a, s_A, s_B}
Pairs(S) == {P \in SUBSET S : Cardinality(P) = 2}

\* {"type": "object", "properties": {<name>: {"type": "string"}, ...}}
StructOfNames(propNames) ==
    k_type :> Str(s_object) @@
    k_properties :> Map([name \in propNames |-> Map(k_type :> Str(s_string) @@ NoEntries)])

InitPairs ==
    /\ pc = "generateComplexType"
    /\ arg \in [propNames : Pairs(PropertyNames), values : Pairs(EnumValues)]
    /\ res = <<>>
    /\ GeneratorIdle

GenerateStructOfPair ==
    /\ pc = "generateComplexType"
    /\ res' = <<generateComplexType(s_Foo, StructOfNames(arg.propNames), NoEntries,
                                    DefaultAcronyms, DefaultOptions)>>
    /\ pc' = "generateEnumType"
    /\ UNCHANGED <<arg, generatorVars>>

\* the enum array in either order
GenerateEnumOfPair ==
    /\ pc = "generateEnumType"
    /\ \E enumValues \in [1..2 -> {Str(v) : v \in arg.values}] :
          /\ enumValues[1] # enumValues[2]
          /\ res' = Append(res, generateEnumType("definition", s_Status,
                                                 k_enum :> Arr(enumValues), enumValues,
                                                 DefaultAcronyms, DefaultOptions))
    /\ pc' = "pairDone"
    /\ UNCHANGED <<arg, generatorVars>>

NextPairs == GenerateStructOfPair \/ GenerateEnumOfPair
SpecPairs == InitPairs /\ [][NextPairs]_vars

DistinctNames(list) ==
    \A i, j \in DOMAIN list : list[i].name = list[j].name => i = j

\* C25: within one written struct all field identifiers are pairwise distinct,
\* and within one written enum all constant identifiers are pairwise distinct.
C25_DistinctIdentifiers ==
    \A i \in DOMAIN res : DistinctNames(res[i].fields) /\ DistinctNames(res[i].consts)

=============================================================================
